---- MODULE Spec2Model ----
(***************************************************************************)
(* mscl: changelog assembly from a tag history and a commit log.           *)
(*                                                                         *)
(* Strings are sequences of one-character strings, so that the regular     *)
(* expressions, case folding and comparisons of the source are computed    *)
(* character by character.  An optional value (T | null) is a sequence of  *)
(* length 0 (null) or 1.                                                   *)
(***************************************************************************)
EXTENDS Integers, Sequences, FiniteSets, TLC

VARIABLES
    pc,              \* position of the modelled caller
    allTags,         \* the tag list handed to normalizeTags / returned by getTags
    tagMap,          \* result of normalizeTags: [versions, tags]
    idx,             \* run: index of the next version of tagMap.versions to walk
    seen,            \* DeduplicationSet.seen: set of keys
    changelogs,      \* run: the TagChangelog array
    pendingCommits,  \* run: accumulator of commits not yet emitted
    pendingTagInfo,  \* run: optional {display, original, date}
    logs,            \* history: what getCommits returned for each walked version
    dates,           \* history: what getTagDate returned for each walked version
    call             \* the last call made on the DeduplicationSet API and its outcome

vars == <<pc, allTags, tagMap, idx, seen, changelogs, pendingCommits,
          pendingTagInfo, logs, dates, call>>

None == <<>>
Some(x) == <<x>>

(***************************************************************************)
(* Characters                                                              *)
(***************************************************************************)
Digits == <<"0", "1", "2", "3", "4", "5", "6", "7", "8", "9">>
UpperLetters == <<"A", "B", "C", "D", "E", "F", "G", "H", "I", "J", "K", "L", "M",
                  "N", "O", "P", "Q", "R", "S", "T", "U", "V", "W", "X", "Y", "Z">>
LowerLetters == <<"a", "b", "c", "d", "e", "f", "g", "h", "i", "j", "k", "l", "m",
                  "n", "o", "p", "q", "r", "s", "t", "u", "v", "w", "x", "y", "z">>

\* The characters of the model in UTF-16 code unit order (the order of the
\* JavaScript < on strings).
CodeOrder == <<"\n", " ", "!", "(", ")", "-", ".">> \o Digits \o <<":">>
             \o UpperLetters \o <<"_">> \o LowerLetters \o <<"|">>

Range(s) == {s[i] : i \in 1..Len(s)}

DigitSet == Range(Digits)
LetterSet == Range(UpperLetters) \cup Range(LowerLetters)

IsDigit(c) == c \in DigitSet
IsLetter(c) == c \in LetterSet
\* \w of a JavaScript regular expression
IsWord(c) == IsLetter(c) \/ IsDigit(c) \/ c = "_"
\* \s of a JavaScript regular expression, on the characters of the model
IsSpace(c) == c \in {" ", "\n"}

\* The place of a character in CodeOrder
CharCodes == [c \in Range(CodeOrder) |-> CHOOSE i \in 1..Len(CodeOrder) : CodeOrder[i] = c]
CharCode(c) == CharCodes[c]

DigitVals == [c \in DigitSet |-> (CHOOSE i \in 1..10 : Digits[i] = c) - 1]
DigitVal(c) == DigitVals[c]

\* The lower-case form of every character
LowerChars ==
    [c \in Range(CodeOrder) |->
        IF c \in Range(UpperLetters)
        THEN LowerLetters[CHOOSE i \in 1..26 : UpperLetters[i] = c]
        ELSE c]
LowerChar(c) == LowerChars[c]

\* String.prototype.toLowerCase
toLowerCase(s) == [i \in 1..Len(s) |-> LowerChar(s[i])]

\* s.slice(from - 1, to) in JavaScript terms: the characters from..to
Slice(s, from, to) == IF from > to THEN <<>> ELSE SubSeq(s, from, to)

RECURSIVE TrimStart(_)
TrimStart(s) == IF s # <<>> /\ IsSpace(Head(s)) THEN TrimStart(Tail(s)) ELSE s

RECURSIVE TrimEnd(_)
TrimEnd(s) ==
    IF s # <<>> /\ IsSpace(s[Len(s)]) THEN TrimEnd(SubSeq(s, 1, Len(s) - 1)) ELSE s

\* String.prototype.trim
trim(s) == TrimEnd(TrimStart(s))

\* The position after the longest run of digits that starts at p (p when none): \d*
RECURSIVE DigitsEnd(_, _)
DigitsEnd(s, p) == IF p <= Len(s) /\ IsDigit(s[p]) THEN DigitsEnd(s, p + 1) ELSE p

\* The position after the longest run of [\w.] that starts at p
RECURSIVE WordDotEnd(_, _)
WordDotEnd(s, p) ==
    IF p <= Len(s) /\ (IsWord(s[p]) \/ s[p] = ".") THEN WordDotEnd(s, p + 1) ELSE p

\* The value of a string of digits
RECURSIVE NumVal(_)
NumVal(s) == IF s = <<>> THEN 0 ELSE 10 * NumVal(SubSeq(s, 1, Len(s) - 1)) + DigitVal(s[Len(s)])

\* s.split(sep) for a one-character separator
RECURSIVE Split(_, _)
Split(s, sep) ==
    IF \E i \in 1..Len(s) : s[i] = sep
    THEN LET i == CHOOSE k \in 1..Len(s) : s[k] = sep /\ \A j \in 1..(k - 1) : s[j] # sep
         IN <<SubSeq(s, 1, i - 1)>> \o Split(SubSeq(s, i + 1, Len(s)), sep)
    ELSE <<s>>

(***************************************************************************)
(* parser.ts: version extraction                                           *)
(***************************************************************************)

\* \d+\.\d+\.\d+(?:-[\w.]+)? matched at position p: the position after the
\* match, 0 when there is none.  Every quantifier is greedy and no shorter
\* choice can make a later part match, so the first attempt decides.
\* a, b, c: the positions after the first, second and third \d+; d: the
\* position after the [\w.]* that follows the character at c.
CoreEnd(s, p) ==
    LET End(a, b, c, d) ==
            IF a > p /\ a <= Len(s) /\ s[a] = "."
               /\ b > a + 1 /\ b <= Len(s) /\ s[b] = "."
               /\ c > b + 1
            THEN IF c <= Len(s) /\ s[c] = "-" /\ d > c + 1 THEN d ELSE c
            ELSE 0
        Third(a, b, c) == End(a, b, c, WordDotEnd(s, c + 1))
        Second(a, b) == Third(a, b, DigitsEnd(s, b + 1))
        First(a) == Second(a, DigitsEnd(s, a + 1))
    IN First(DigitsEnd(s, p))

\* v?(core) matched at position p: <<start of the group, position after it>>,
\* <<0, 0>> when there is no match
VCore(s, p) ==
    LET Group(q, e) == IF e = 0 THEN <<0, 0>> ELSE <<q, e>>
        From(q) == Group(q, CoreEnd(s, q))
    IN From(IF p <= Len(s) /\ s[p] = "v" THEN p + 1 ELSE p)

\* (?:.*-)?v?(core) matched at position p: the greedy .* gives back characters
\* until a "-" is followed by a match, so the last such "-" wins; only then is
\* the optional prefix left out.
PrefixVCore(s, p) ==
    LET After(dashes) ==
            VCore(s, IF dashes # {}
                     THEN (CHOOSE q \in dashes : \A r \in dashes : r <= q) + 1
                     ELSE p)
    IN After({q \in p..Len(s) : s[q] = "-" /\ VCore(s, q + 1)[2] # 0})

\* tag.match(VERSION_EXTRACT_REGEX): the match at the leftmost position that has one
extractVersion(tag) ==
    LET Group(m) == IF m[2] = 0 THEN None ELSE Slice(tag, m[1], m[2] - 1)
        Matches(ms) ==
            Group(IF ms = {} THEN <<0, 0>>
                  ELSE CHOOSE m \in ms : \A n \in ms : m[3] <= n[3])
    IN Matches({m \in {PrefixVCore(tag, p) \o <<p>> : p \in 1..(Len(tag) + 1)} :
                   m[2] # 0})

(***************************************************************************)
(* The semver package, as parser.ts and bump.ts use it                     *)
(***************************************************************************)

\* A numeric identifier: 0|[1-9]\d*
IsNumericId(s) ==
    /\ s # <<>>
    /\ \A i \in 1..Len(s) : IsDigit(s[i])
    /\ (Len(s) > 1 => s[1] # "0")

\* A pre-release identifier: 0|[1-9]\d*|\d*[a-zA-Z-][a-zA-Z0-9-]*
IsPrereleaseId(s) ==
    /\ s # <<>>
    /\ \A i \in 1..Len(s) : IsDigit(s[i]) \/ IsLetter(s[i]) \/ s[i] = "-"
    /\ ((\A i \in 1..Len(s) : IsDigit(s[i])) => IsNumericId(s))

\* semver.parse(version) in strict mode: None, or Some of the parsed version.
\* The strings of the model hold no "+", so there is never build metadata.
\* s: the version without a leading "v"; cut: the place of its first "-", or
\* the place after its end; main and pre: the identifiers on either side.
semverParse(version) ==
    LET Parsed(main, pre) ==
            IF /\ Len(main) = 3
               /\ \A i \in 1..3 : IsNumericId(main[i])
               /\ \A i \in 1..Len(pre) : IsPrereleaseId(pre[i])
            THEN Some([major |-> NumVal(main[1]), minor |-> NumVal(main[2]),
                       patch |-> NumVal(main[3]), prerelease |-> pre])
            ELSE None
        CutAt(s, cut) ==
            Parsed(Split(SubSeq(s, 1, cut - 1), "."),
                   IF cut > Len(s) THEN <<>> ELSE Split(SubSeq(s, cut + 1, Len(s)), "."))
        Dashes(s, dash) ==
            CutAt(s, IF dash = {} THEN Len(s) + 1
                     ELSE CHOOSE i \in dash : \A j \in dash : i <= j)
        Stripped(s) == Dashes(s, {i \in 1..Len(s) : s[i] = "-"})
    IN Stripped(IF version # <<>> /\ version[1] = "v" THEN Tail(version) ELSE version)

\* a < b on JavaScript strings: by code unit, a proper prefix first
RECURSIVE StrLess(_, _)
StrLess(a, b) ==
    IF b = <<>> THEN FALSE
    ELSE IF a = <<>> THEN TRUE
    ELSE IF Head(a) # Head(b) THEN CharCode(Head(a)) < CharCode(Head(b))
    ELSE StrLess(Tail(a), Tail(b))

Sign(n) == IF n < 0 THEN -1 ELSE IF n > 0 THEN 1 ELSE 0

IsAllDigits(s) == s # <<>> /\ \A i \in 1..Len(s) : IsDigit(s[i])

\* semver's compareIdentifiers: numbers by value and before any other identifier
compareIdentifiers(a, b) ==
    IF IsAllDigits(a) /\ IsAllDigits(b)
    THEN Sign(NumVal(a) - NumVal(b))
    ELSE IF a = b THEN 0
    ELSE IF IsAllDigits(a) THEN -1
    ELSE IF IsAllDigits(b) THEN 1
    ELSE IF StrLess(a, b) THEN -1 ELSE 1

\* semver's comparePre: a version without pre-release is the greater one;
\* otherwise identifier by identifier, the shorter list first
RECURSIVE comparePreFrom(_, _, _)
comparePreFrom(a, b, i) ==
    IF i > Len(a) /\ i > Len(b) THEN 0
    ELSE IF i > Len(b) THEN 1
    ELSE IF i > Len(a) THEN -1
    ELSE LET Decide(c) == IF c # 0 THEN c ELSE comparePreFrom(a, b, i + 1)
         IN Decide(compareIdentifiers(a[i], b[i]))

comparePre(a, b) ==
    IF a # <<>> /\ b = <<>> THEN -1
    ELSE IF a = <<>> /\ b # <<>> THEN 1
    ELSE IF a = <<>> /\ b = <<>> THEN 0
    ELSE comparePreFrom(a, b, 1)

\* semver.compare(a, b) of two valid version strings
semverCompare(a, b) ==
    LET Compare(x, y) ==
            IF x.major # y.major THEN Sign(x.major - y.major)
            ELSE IF x.minor # y.minor THEN Sign(x.minor - y.minor)
            ELSE IF x.patch # y.patch THEN Sign(x.patch - y.patch)
            ELSE comparePre(x.prerelease, y.prerelease)
    IN Compare(semverParse(a)[1], semverParse(b)[1])

\* isValidVersion(tag)
isValidVersion(tag) ==
    LET Valid(extracted) == extracted # None /\ semverParse(extracted) # None
    IN Valid(extractVersion(tag))

\* isPreRelease(version)
isPreRelease(version) ==
    LET Pre(parsed) == parsed # None /\ Len(parsed[1].prerelease) > 0
    IN Pre(semverParse(version))

(***************************************************************************)
(* parser.ts: normalizeTags                                                *)
(***************************************************************************)

\* The TagInfo that normalizeTags builds for a tag whose version is clean
TagInfoOf(tag, clean) ==
    [original |-> tag, clean |-> clean, display |-> <<"v">> \o clean]

\* The first loop of normalizeTags: versionMap as the sequence of its entries
\* [clean, infos] in insertion order (a JavaScript Map iterates in that order)
RECURSIVE groupTags(_, _)
groupTags(tags, versionMap) ==
    IF tags = <<>> THEN versionMap
    ELSE LET Put(tag, clean) ==
                 IF clean = None \/ semverParse(clean) = None
                 THEN versionMap
                 ELSE IF \E i \in 1..Len(versionMap) : versionMap[i].clean = clean
                 THEN [i \in 1..Len(versionMap) |->
                          IF versionMap[i].clean = clean
                          THEN [versionMap[i] EXCEPT
                                   !.infos = Append(@, TagInfoOf(tag, clean))]
                          ELSE versionMap[i]]
                 ELSE Append(versionMap,
                             [clean |-> clean, infos |-> <<TagInfoOf(tag, clean)>>])
         IN groupTags(Tail(tags), Put(Head(tags), extractVersion(Head(tags))))

\* original.match(/^v\d/)
IsVPrefixed(original) ==
    Len(original) >= 2 /\ original[1] = "v" /\ IsDigit(original[2])

\* Mutant of compareInfos: the comparator forgets the "v" + digit rule
compareInfos_LengthOnly(a, b) == Len(a.original) - Len(b.original)

\* The comparator of infos.sort in normalizeTags
compareInfos(a, b) ==
    IF IsVPrefixed(a.original) /\ ~IsVPrefixed(b.original) THEN -1
    ELSE IF ~IsVPrefixed(a.original) /\ IsVPrefixed(b.original) THEN 1
    ELSE Len(a.original) - Len(b.original)

\* infos.sort(comparator): Array.prototype.sort is stable, so an element goes
\* behind every earlier element that does not compare greater
RECURSIVE sortInfos(_)
sortInfos(infos) ==
    IF infos = <<>> THEN <<>>
    ELSE LET InsertAt(rest, x, k) ==
                 SubSeq(rest, 1, k) \o <<x>> \o SubSeq(rest, k + 1, Len(rest))
             Insert(rest, x) ==
                 InsertAt(rest, x,
                     Cardinality({i \in 1..Len(rest) : compareInfos(rest[i], x) <= 0}))
         IN Insert(sortInfos(SubSeq(infos, 1, Len(infos) - 1)), infos[Len(infos)])

\* Mutant of sortVersions: the keys stay in the insertion order of the Map
sortVersions_Unsorted(keys) == keys

\* Mutant of sortVersions: sort() without a comparator, which orders strings by
\* code unit
RECURSIVE sortVersions_DefaultSort(_)
sortVersions_DefaultSort(keys) ==
    IF keys = <<>> THEN <<>>
    ELSE LET InsertAt(rest, x, k) ==
                 SubSeq(rest, 1, k) \o <<x>> \o SubSeq(rest, k + 1, Len(rest))
             Insert(rest, x) ==
                 InsertAt(rest, x,
                     Cardinality({i \in 1..Len(rest) : ~StrLess(x, rest[i])}))
         IN Insert(sortVersions_DefaultSort(SubSeq(keys, 1, Len(keys) - 1)),
                   keys[Len(keys)])

\* Array.from(result.keys()).sort((a, b) => semver.compare(a, b))
RECURSIVE sortVersions(_)
sortVersions(keys) ==
    IF keys = <<>> THEN <<>>
    ELSE LET InsertAt(rest, x, k) ==
                 SubSeq(rest, 1, k) \o <<x>> \o SubSeq(rest, k + 1, Len(rest))
             Insert(rest, x) ==
                 InsertAt(rest, x,
                     Cardinality({i \in 1..Len(rest) : semverCompare(rest[i], x) <= 0}))
         IN Insert(sortVersions(SubSeq(keys, 1, Len(keys) - 1)), keys[Len(keys)])

\* normalizeTags(tags): the TagMap {versions, tags}
normalizeTags(tags) ==
    LET Result(versionMap) ==
            [e \in 1..Len(versionMap) |-> sortInfos(versionMap[e].infos)[1]]
        TagMapOf(result) ==
            [versions |-> sortVersions([e \in 1..Len(result) |-> result[e].clean]),
             tags |-> [clean \in {result[e].clean : e \in 1..Len(result)} |->
                          result[CHOOSE e \in 1..Len(result) : result[e].clean = clean]]]
    IN TagMapOf(Result(groupTags(tags, <<>>)))

\* Mutant of tagsAfterNormalizeTags: the tags are sorted in place
tagsAfterNormalizeTags_SortedInPlace(tags) ==
    LET Originals(m) == [i \in 1..Len(m.versions) |-> m.tags[m.versions[i]].original]
    IN Originals(normalizeTags(tags))

\* The array handed to normalizeTags once it has returned: the loop
\* `for (const tag of tags)` only reads it, and infos.sort works on the arrays
\* that normalizeTags made itself
tagsAfterNormalizeTags(tags) == tags

\* sortTagsBySemver(tags)
sortTagsBySemver(tags) ==
    LET Originals(m) == [i \in 1..Len(m.versions) |-> m.tags[m.versions[i]].original]
    IN Originals(normalizeTags(tags))

\* The TagMap before normalizeTags has run
EmptyTagMap == [versions |-> <<>>, tags |-> <<>>]

(***************************************************************************)
(* Tags of the model                                                       *)
(***************************************************************************)
Tag_v100 == <<"v", "1", ".", "0", ".", "0">>
Tag_100 == <<"1", ".", "0", ".", "0">>
Tag_old_v100 == <<"o", "l", "d", "-", "v", "1", ".", "0", ".", "0">>
Tag_rel_v100 == <<"r", "e", "l", "-", "v", "1", ".", "0", ".", "0">>
Tag_v100rc2 == <<"v", "1", ".", "0", ".", "0", "-", "r", "c", ".", "2">>
Tag_v100rc10 == <<"v", "1", ".", "0", ".", "0", "-", "r", "c", ".", "1", "0">>
Tag_v100alpha == <<"v", "1", ".", "0", ".", "0", "-", "a", "l", "p", "h", "a">>
Tag_v090 == <<"v", "0", ".", "9", ".", "0">>
Tag_v1100 == <<"v", "1", ".", "1", "0", ".", "0">>
Tag_v120 == <<"v", "1", ".", "2", ".", "0">>
Tag_latest == <<"l", "a", "t", "e", "s", "t">>
Tag_v0100 == <<"v", "0", "1", ".", "0", ".", "0">>
Tag_v200_100 == <<"v", "2", ".", "0", ".", "0", "-", "1", ".", "0", ".", "0">>

\* The tags a tag list of the parser operations is drawn from
TagPool ==
    {Tag_v100, Tag_100, Tag_old_v100, Tag_rel_v100, Tag_v100rc2, Tag_v100rc10,
     Tag_v100alpha, Tag_v1100, Tag_v120, Tag_latest, Tag_v0100, Tag_v200_100}

\* Longest tag list handed to normalizeTags
MaxTagList == 3

SeqsUpTo(S, n) == UNION {[1..k -> S] : k \in 0..n}

(***************************************************************************)
(* SpecTags: normalizeTags called on an arbitrary tag list                 *)
(***************************************************************************)
RunIdle ==
    /\ idx = 0
    /\ seen = {}
    /\ changelogs = <<>>
    /\ pendingCommits = <<>>
    /\ pendingTagInfo = None
    /\ logs = <<>>
    /\ dates = <<>>

NoCall == [op |-> "none", arg |-> <<>>, before |-> {}, result |-> <<>>, found |-> FALSE]

InitTags ==
    /\ pc = "start"
    /\ allTags \in SeqsUpTo(TagPool, MaxTagList)
    /\ tagMap = EmptyTagMap
    /\ call = NoCall
    /\ RunIdle

\* normalizeTags(allTags); call keeps the argument as it was handed over
CallNormalizeTags ==
    /\ pc = "start"
    /\ tagMap' = normalizeTags(allTags)
    /\ allTags' = tagsAfterNormalizeTags(allTags)
    /\ call' = [op |-> "normalizeTags", arg |-> allTags, before |-> {},
                result |-> <<>>, found |-> FALSE]
    /\ pc' = "normalized"
    /\ UNCHANGED <<idx, seen, changelogs, pendingCommits, pendingTagInfo, logs, dates>>

\* sortTagsBySemver(allTags), which hands allTags on to normalizeTags
CallSortTagsBySemver ==
    /\ pc = "start"
    /\ allTags' = tagsAfterNormalizeTags(allTags)
    /\ call' = [op |-> "sortTagsBySemver", arg |-> allTags, before |-> {},
                result |-> sortTagsBySemver(allTags), found |-> FALSE]
    /\ pc' = "sorted"
    /\ UNCHANGED <<tagMap, idx, seen, changelogs, pendingCommits, pendingTagInfo,
                   logs, dates>>

\* The display tags of a TagMap, in the order of its versions
DisplayTags(m) == [i \in 1..Len(m.versions) |-> m.tags[m.versions[i]].display]

Reverse(s) == [i \in 1..Len(s) |-> s[Len(s) + 1 - i]]

\* normalizeTags called on the display tags of the TagMap of the first call,
\* in ascending or in descending order
CallNormalizeDisplayTags(descending) ==
    /\ pc = "normalized"
    /\ LET Again(tags) ==
               call' = [op |-> "normalizeTags", arg |-> tags, before |-> {},
                        result |-> normalizeTags(tags), found |-> FALSE]
       IN Again(IF descending THEN Reverse(DisplayTags(tagMap)) ELSE DisplayTags(tagMap))
    /\ pc' = "renormalized"
    /\ UNCHANGED <<allTags, tagMap, idx, seen, changelogs, pendingCommits,
                   pendingTagInfo, logs, dates>>

NextTags ==
    \/ CallNormalizeTags
    \/ CallSortTagsBySemver
    \/ \E descending \in BOOLEAN : CallNormalizeDisplayTags(descending)

SpecTags == InitTags /\ [][NextTags]_vars

(***************************************************************************)
(* parser.ts: parseConventionalCommit                                      *)
(***************************************************************************)

\* The types of CONVENTIONAL_COMMIT_REGEX (ALL_TYPES)
ALL_TYPES ==
    {<<"f", "e", "a", "t">>,
     <<"f", "i", "x">>,
     <<"d", "o", "c", "s">>,
     <<"s", "t", "y", "l", "e">>,
     <<"r", "e", "f", "a", "c", "t", "o", "r">>,
     <<"p", "e", "r", "f">>,
     <<"t", "e", "s", "t">>,
     <<"b", "u", "i", "l", "d">>,
     <<"c", "i">>,
     <<"c", "h", "o", "r", "e">>,
     <<"r", "e", "v", "e", "r", "t">>}

\* The position after the longest run of [\w-] that starts at p
RECURSIVE WordDashEnd(_, _)
WordDashEnd(s, p) ==
    IF p <= Len(s) /\ (IsWord(s[p]) \/ s[p] = "-") THEN WordDashEnd(s, p + 1) ELSE p

\* The position after the longest run of \s that starts at p
RECURSIVE SpaceEnd(_, _)
SpaceEnd(s, p) == IF p <= Len(s) /\ IsSpace(s[p]) THEN SpaceEnd(s, p + 1) ELSE p

\* s holds the characters of part somewhere
Contains(s, part) ==
    \E p \in 1..(Len(s) - Len(part) + 1) : SubSeq(s, p, p + Len(part) - 1) = part

\* subject.match(CONVENTIONAL_COMMIT_REGEX): None, or Some of the groups
\* [type, scopeRaw, subject].  No type is the beginning of another, the scope
\* cannot reach over its ")", and \s* gives characters back to (.+) only when
\* nothing else is left for it, so the first attempt that fits decides.
matchConventional(subject) ==
    LET \* from: the places where (.+)$ can start (something is left, on one line)
        Groups(t, scopeRaw, colon, from) ==
            IF colon <= Len(subject) /\ subject[colon] = ":" /\ from # {}
            THEN Some([type |-> SubSeq(subject, 1, Len(t)),
                       scopeRaw |-> scopeRaw,
                       subject |-> SubSeq(subject,
                                          CHOOSE k \in from : \A j \in from : j <= k,
                                          Len(subject))])
            ELSE None
        \* colon: the place after the type, the scope and the "!"
        Colon(t, scopeRaw, colon) ==
            Groups(t, scopeRaw, colon,
                   {k \in (colon + 1)..SpaceEnd(subject, colon + 1) :
                       /\ k <= Len(subject)
                       /\ \A i \in k..Len(subject) : subject[i] # "\n"})
        Bang(t, scopeRaw, p) ==
            Colon(t, scopeRaw,
                  IF p <= Len(subject) /\ subject[p] = "!" THEN p + 1 ELSE p)
        \* p: the place after the type; q: the place after the [\w-]* behind p
        Scope(t, p, q) ==
            IF p <= Len(subject) /\ subject[p] = "(" /\ q > p + 1
               /\ q <= Len(subject) /\ subject[q] = ")"
            THEN Bang(t, Some(SubSeq(subject, p, q)), q + 1)
            ELSE Bang(t, None, p)
        Type(t) == Scope(t, Len(t) + 1, WordDashEnd(subject, Len(t) + 2))
        Types(types) == IF types = {} THEN None ELSE Type(CHOOSE t \in types : TRUE)
    IN Types({t \in ALL_TYPES :
                 Len(subject) >= Len(t) /\ toLowerCase(SubSeq(subject, 1, Len(t))) = t})

\* /(?:\))?!:/.test(commit.subject)
hasBang(subject) == Contains(subject, <<"!", ":">>)

\* BREAKING_CHANGE_REGEX.test(commit.body): /^BREAKING[ -]CHANGE:\s*/im
hasBreakingFooter(body) ==
    \E p \in 1..Len(body) :
        /\ (p = 1 \/ body[p - 1] = "\n")
        /\ p + 15 <= Len(body)
        /\ toLowerCase(SubSeq(body, p, p + 15)) \in
              {<<"b", "r", "e", "a", "k", "i", "n", "g", " ", "c", "h", "a", "n", "g", "e", ":">>,
               <<"b", "r", "e", "a", "k", "i", "n", "g", "-", "c", "h", "a", "n", "g", "e", ":">>}

\* parseConventionalCommit(commit): None, or Some of the ConventionalCommit
parseConventionalCommit(commit) ==
    LET Record(type, scopeRaw, subject) ==
            [hash |-> commit.hash,
             type |-> toLowerCase(type),
             scope |-> IF scopeRaw # None
                       THEN Some(Slice(scopeRaw[1], 2, Len(scopeRaw[1]) - 1))
                       ELSE None,
             subject |-> trim(subject),
             raw |-> commit.subject,
             breaking |-> hasBang(commit.subject) \/ hasBreakingFooter(commit.body)]
        Parsed(match) ==
            IF match = None THEN None
            ELSE Some(Record(match[1].type, match[1].scopeRaw, match[1].subject))
    IN Parsed(matchConventional(commit.subject))

\* rawCommits.map(parseConventionalCommit).filter((c) => c !== null)
RECURSIVE conventionalCommits(_)
conventionalCommits(rawCommits) ==
    IF rawCommits = <<>> THEN <<>>
    ELSE parseConventionalCommit(Head(rawCommits)) \o conventionalCommits(Tail(rawCommits))

(***************************************************************************)
(* dedup.ts                                                                *)
(***************************************************************************)

\* Mutant of getKey: the scope is left out of the key
getKey_NoScope(commit) ==
    toLowerCase(commit.type \o <<":">> \o commit.subject)

\* DeduplicationSet.getKey
getKey(commit) ==
    toLowerCase(commit.type \o <<":">>
                \o (IF commit.scope # None THEN commit.scope[1] ELSE <<>>)
                \o <<":">> \o commit.subject)

\* DeduplicationSet.has, on the value of this.seen
setHas(seenSet, commit) == getKey(commit) \in seenSet

\* Mutant of setAdd: the set is replaced instead of extended
setAdd_Replace(seenSet, commit) == {getKey(commit)}

\* DeduplicationSet.add: the value of this.seen after it
setAdd(seenSet, commit) == seenSet \cup {getKey(commit)}

\* Mutant of dedupeLoop: a kept commit is not recorded in the set
RECURSIVE dedupeLoop_NoAdd(_, _, _)
dedupeLoop_NoAdd(commits, seenSet, result) ==
    IF commits = <<>> THEN [result |-> result, seen |-> seenSet]
    ELSE IF ~setHas(seenSet, Head(commits))
         THEN dedupeLoop_NoAdd(Tail(commits), seenSet, Append(result, Head(commits)))
         ELSE dedupeLoop_NoAdd(Tail(commits), seenSet, result)

\* The loop of dedupeCommits over the commits left, with the set and the
\* result so far
RECURSIVE dedupeLoop(_, _, _)
dedupeLoop(commits, seenSet, result) ==
    IF commits = <<>> THEN [result |-> result, seen |-> seenSet]
    ELSE IF ~setHas(seenSet, Head(commits))
         THEN dedupeLoop(Tail(commits), setAdd(seenSet, Head(commits)),
                         Append(result, Head(commits)))
         ELSE dedupeLoop(Tail(commits), seenSet, result)

\* dedupeCommits(commits, seenSet): the array returned and the set afterwards
dedupeCommits(commits, seenSet) == dedupeLoop(commits, seenSet, <<>>)

(***************************************************************************)
(* Commits of the model                                                    *)
(***************************************************************************)
Raw_fix_a ==
    [hash |-> <<"a", "1", "a", "1">>, body |-> <<>>,
     subject |-> <<"f", "i", "x", ":", " ", "a">>]
Raw_feat_b ==
    [hash |-> <<"b", "2", "b", "2">>, body |-> <<>>,
     subject |-> <<"f", "e", "a", "t", ":", " ", "b">>]
\* a cherry-pick of Raw_fix_a: another hash, other letter case
Raw_FIX_A ==
    [hash |-> <<"c", "3", "c", "3">>, body |-> <<>>,
     subject |-> <<"F", "I", "X", ":", " ", "A">>]
\* not a conventional commit
Raw_update ==
    [hash |-> <<"d", "4", "d", "4">>, body |-> <<>>,
     subject |-> <<"u", "p", "d", "a", "t", "e", " ", "r", "e", "a", "d", "m", "e">>]
Raw_fix_ui_a ==
    [hash |-> <<"e", "5", "e", "5">>, body |-> <<>>,
     subject |-> <<"f", "i", "x", "(", "u", "i", ")", ":", " ", "a">>]
Raw_fix_UI_A ==
    [hash |-> <<"f", "6", "f", "6">>, body |-> <<>>,
     subject |-> <<"f", "i", "x", "(", "U", "I", ")", ":", " ", "A">>]
\* no scope, and a subject that reads like a scope and a subject
Raw_fix_uia ==
    [hash |-> <<"a", "7", "a", "7">>, body |-> <<>>,
     subject |-> <<"f", "i", "x", ":", " ", "u", "i", ":", "a">>]

(***************************************************************************)
(* SpecDedup: the DeduplicationSet API and dedupeCommits called on one set *)
(***************************************************************************)

\* Longest commit list handed to dedupeCommits
MaxCommits == 2

\* The commits handed to the set: four keys, one of them under two hashes
DedupPool ==
    UNION {Range(parseConventionalCommit(r)) :
              r \in {Raw_fix_a, Raw_feat_b, Raw_fix_ui_a, Raw_fix_UI_A, Raw_fix_uia}}

InitDedup ==
    /\ pc = "dedup"
    /\ allTags = <<>>
    /\ tagMap = EmptyTagMap
    /\ call = NoCall
    /\ RunIdle

\* seenSet.has(commit)
CallHas(commit) ==
    /\ pc = "dedup"
    /\ call' = [op |-> "has", arg |-> <<commit>>, before |-> seen, result |-> <<>>,
                found |-> setHas(seen, commit)]
    /\ UNCHANGED <<pc, allTags, tagMap, idx, seen, changelogs, pendingCommits,
                   pendingTagInfo, logs, dates>>

\* seenSet.add(commit)
CallAdd(commit) ==
    /\ pc = "dedup"
    /\ seen' = setAdd(seen, commit)
    /\ call' = [op |-> "add", arg |-> <<commit>>, before |-> seen, result |-> <<>>,
                found |-> FALSE]
    /\ UNCHANGED <<pc, allTags, tagMap, idx, changelogs, pendingCommits,
                   pendingTagInfo, logs, dates>>

\* dedupeCommits(commits, seenSet)
CallDedupeCommits(commits) ==
    /\ pc = "dedup"
    /\ LET d == dedupeCommits(commits, seen)
       IN /\ seen' = d.seen
          /\ call' = [op |-> "dedupeCommits", arg |-> commits, before |-> seen,
                      result |-> d.result, found |-> FALSE]
    /\ UNCHANGED <<pc, allTags, tagMap, idx, changelogs, pendingCommits,
                   pendingTagInfo, logs, dates>>

NextDedup ==
    \/ \E commit \in DedupPool : CallHas(commit)
    \/ \E commit \in DedupPool : CallAdd(commit)
    \/ \E commits \in SeqsUpTo(DedupPool, MaxCommits) : CallDedupeCommits(commits)

SpecDedup == InitDedup /\ [][NextDedup]_vars

(***************************************************************************)
(* SpecParse: parseConventionalCommit called on one RawCommit              *)
(***************************************************************************)

\* The parts that the subjects of the model are put together from: a type, a
\* scope, a "!", a colon and a description, each also missing or malformed
TypeParts ==
    {<<"f", "e", "a", "t">>, <<"F", "I", "X">>, <<"c", "i">>, <<"P", "e", "r", "f">>,
     <<"f", "e", "a", "t", "u", "r", "e">>, <<"w", "i", "p">>}
ScopeParts ==
    {<<>>, <<"(", "u", "i", ")">>, <<"(", "a", "-", "b", ")">>, <<"(", ")">>,
     <<"(", "a", " ", "b", ")">>, <<"(", "u", "i">>}
BangParts == {<<>>, <<"!">>}
ColonParts == {<<":">>, <<>>, <<" ", ":">>}
DescriptionParts ==
    {<<>>, <<" ">>, <<" ", " ">>, <<" ", "a">>, <<"A", " ", "b", " ">>,
     <<" ", "a", "!", ":", " ", "b">>, <<" ", "!">>}

\* The subject lines: one line of text each
SubjectPool ==
    {t \o s \o b \o c \o d :
        t \in TypeParts, s \in ScopeParts, b \in BangParts, c \in ColonParts,
        d \in DescriptionParts}

\* The bodies: none, a footer in both spellings and letter cases, a footer on
\* a later line, and texts that only look like one
BodyPool ==
    {<<>>,
     <<"B", "R", "E", "A", "K", "I", "N", "G", " ", "C", "H", "A", "N", "G", "E", ":", " ", "x">>,
     <<"b", "r", "e", "a", "k", "i", "n", "g", "-", "c", "h", "a", "n", "g", "e", ":", " ", "y">>,
     <<"x", "\n", "B", "r", "e", "a", "k", "i", "n", "g", " ", "C", "h", "a", "n", "g", "e", ":", " ", "y">>,
     <<"x", " ", "B", "R", "E", "A", "K", "I", "N", "G", " ", "C", "H", "A", "N", "G", "E", ":", " ", "y">>,
     <<" ", "B", "R", "E", "A", "K", "I", "N", "G", " ", "C", "H", "A", "N", "G", "E", ":", " ", "y">>,
     <<"B", "R", "E", "A", "K", "I", "N", "G", "_", "C", "H", "A", "N", "G", "E", ":", " ", "x">>,
     <<"B", "R", "E", "A", "K", "I", "N", "G", " ", "C", "H", "A", "N", "G", "E">>}

InitParse ==
    /\ pc = "parse"
    /\ allTags = <<>>
    /\ tagMap = EmptyTagMap
    /\ call = NoCall
    /\ RunIdle

\* parseConventionalCommit(commit)
CallParseConventionalCommit(commit) ==
    /\ pc = "parse"
    /\ call' = [op |-> "parseConventionalCommit", arg |-> <<commit>>, before |-> {},
                result |-> parseConventionalCommit(commit), found |-> FALSE]
    /\ pc' = "parsed"
    /\ UNCHANGED <<allTags, tagMap, idx, seen, changelogs, pendingCommits,
                   pendingTagInfo, logs, dates>>

NextParse ==
    \E subject \in SubjectPool, body \in BodyPool :
        CallParseConventionalCommit(
            [hash |-> <<"a", "1", "a", "1">>, subject |-> subject, body |-> body])

SpecParse == InitParse /\ [][NextParse]_vars

(***************************************************************************)
(* bump.ts                                                                 *)
(***************************************************************************)

\* \d+\.\d+\.\d+ matched at position p: the position after the match, 0 when
\* there is none
BaseEnd(s, p) ==
    LET End(a, b, c) ==
            IF a > p /\ a <= Len(s) /\ s[a] = "."
               /\ b > a + 1 /\ b <= Len(s) /\ s[b] = "."
               /\ c > b + 1
            THEN c
            ELSE 0
        Second(a, b) == End(a, b, DigitsEnd(s, b + 1))
        First(a) == Second(a, DigitsEnd(s, a + 1))
    IN First(DigitsEnd(s, p))

\* extractVersionFromTag(tag): the group of the leftmost match of
\* /v?(\d+\.\d+\.\d+)/, "0.0.0" when there is no match
extractVersionFromTag(tag) ==
    LET Group(p) == SubSeq(tag, p, BaseEnd(tag, p) - 1)
        At(p) == IF BaseEnd(tag, p) # 0 THEN Group(p) ELSE Group(p + 1)
        Leftmost(starts) ==
            IF starts = {} THEN <<"0", ".", "0", ".", "0">>
            ELSE At(CHOOSE p \in starts : \A q \in starts : p <= q)
    IN Leftmost({p \in 1..Len(tag) :
                    \/ BaseEnd(tag, p) # 0
                    \/ tag[p] = "v" /\ BaseEnd(tag, p + 1) # 0})

\* String(n) of a number that is not negative
RECURSIVE NumStr(_)
NumStr(n) == IF n < 10 THEN <<Digits[n + 1]>> ELSE NumStr(n \div 10) \o <<Digits[(n % 10) + 1]>>

\* semver.inc(version, release) for release major, minor or patch: None when
\* the version does not parse
semverInc(version, release) ==
    LET Format(major, minor, patch) ==
            NumStr(major) \o <<".">> \o NumStr(minor) \o <<".">> \o NumStr(patch)
        Inc(v) ==
            IF release = "major"
            THEN Format(IF v.minor # 0 \/ v.patch # 0 \/ v.prerelease = <<>>
                        THEN v.major + 1 ELSE v.major, 0, 0)
            ELSE IF release = "minor"
            THEN Format(v.major,
                        IF v.patch # 0 \/ v.prerelease = <<>> THEN v.minor + 1 ELSE v.minor,
                        0)
            ELSE Format(v.major, v.minor,
                        IF v.prerelease = <<>> THEN v.patch + 1 ELSE v.patch)
        Parsed(parsed) == IF parsed = None THEN None ELSE Inc(parsed[1])
    IN Parsed(semverParse(version))

\* suggestNextVersion: the bump type from the three flags
bumpTypeOf(currentVersion, hasBreaking, hasFeatures, hasFixes) ==
    IF hasBreaking
    THEN IF semverParse(currentVersion) # None /\ semverParse(currentVersion)[1].major = 0
         THEN "minor" ELSE "major"
    ELSE IF hasFeatures THEN "minor"
    ELSE IF hasFixes THEN "patch"
    ELSE "none"

\* Mutant of nextVersionOf: a patch after a pre-release tag is incremented too
nextVersionOf_AlwaysIncrement(currentVersion, isPrerelease, bumpType) ==
    IF bumpType = "none" \/ semverInc(currentVersion, bumpType) = None
    THEN currentVersion
    ELSE semverInc(currentVersion, bumpType)

\* suggestNextVersion: the next version from the current one and the bump type
nextVersionOf(currentVersion, isPrerelease, bumpType) ==
    IF isPrerelease /\ bumpType = "patch" THEN currentVersion
    ELSE IF bumpType = "none" THEN currentVersion
    ELSE IF semverInc(currentVersion, bumpType) = None THEN currentVersion
    ELSE semverInc(currentVersion, bumpType)

\* suggestNextVersion(commits, lastTag): lastTag is None or Some of a tag
suggestNextVersion(commits, lastTag) ==
    LET Result(currentVersion, bumpType, isPrerelease, hasBreaking, hasFeatures, hasFixes) ==
            [currentVersion |-> currentVersion,
             nextVersion |-> nextVersionOf(currentVersion, isPrerelease, bumpType),
             bumpType |-> bumpType,
             hasBreaking |-> hasBreaking,
             hasFeatures |-> hasFeatures,
             hasFixes |-> hasFixes]
        Flags(currentVersion, isPrerelease, hasBreaking, hasFeatures, hasFixes) ==
            Result(currentVersion,
                   bumpTypeOf(currentVersion, hasBreaking, hasFeatures, hasFixes),
                   isPrerelease, hasBreaking, hasFeatures, hasFixes)
        Classified(currentVersion, isPrerelease, cs) ==
            Flags(currentVersion, isPrerelease,
                  \E i \in 1..Len(cs) : cs[i].breaking,
                  \E i \in 1..Len(cs) : cs[i].type = <<"f", "e", "a", "t">>,
                  \E i \in 1..Len(cs) : cs[i].type \in {<<"f", "i", "x">>,
                                                       <<"p", "e", "r", "f">>})
    IN Classified(IF lastTag # None /\ lastTag[1] # <<>>
                  THEN extractVersionFromTag(lastTag[1])
                  ELSE <<"0", ".", "0", ".", "0">>,
                  lastTag # None /\ lastTag[1] # <<>>
                      /\ \E i \in 1..Len(lastTag[1]) : lastTag[1][i] = "-",
                  conventionalCommits(commits))

\* suffix.replace(/^\-/, ""): one leading hyphen is dropped
stripLeadingHyphen(s) ==
    IF s # <<>> /\ s[1] = "-" THEN Tail(s) ELSE s

\* s.replace(/\.\d+$/, ""): a final dot with digits after it is dropped
stripTrailingCounter(s) ==
    LET Cut(dots) ==
            IF dots = {} THEN s ELSE SubSeq(s, 1, (CHOOSE p \in dots : TRUE) - 1)
    IN Cut({p \in 1..Len(s) :
               /\ s[p] = "."
               /\ p < Len(s)
               /\ \A q \in (p + 1)..Len(s) : IsDigit(s[q])})

\* Mutant of suffixBaseOf: the counter at the end of the suffix is kept
suffixBaseOf_KeepsCounter(suffix) == stripLeadingHyphen(suffix)

\* getNextPrereleaseVersion: suffixBase, the name of the pre-release line
suffixBaseOf(suffix) == stripTrailingCounter(stripLeadingHyphen(suffix))

\* Mutant of prereleaseCounter: the pattern has no optional "v"
prereleaseCounter_NoV(tag, baseVersion, suffixBase) ==
    LET Counter(text, prefix) ==
            IF Len(text) > Len(prefix)
               /\ SubSeq(text, 1, Len(prefix)) = prefix
               /\ \A q \in (Len(prefix) + 1)..Len(text) : IsDigit(text[q])
            THEN Some(NumVal(SubSeq(text, Len(prefix) + 1, Len(text))))
            ELSE None
    IN Counter(tag, baseVersion \o <<"-">> \o suffixBase \o <<".">>)

\* tag.match(pattern) for the pattern ^v?<base>-<name>\.(\d+)$ with base and
\* name escaped: Some of parseInt of the group, None when the tag does not match
prereleaseCounter(tag, baseVersion, suffixBase) ==
    LET Counter(text, prefix) ==
            IF Len(text) > Len(prefix)
               /\ SubSeq(text, 1, Len(prefix)) = prefix
               /\ \A q \in (Len(prefix) + 1)..Len(text) : IsDigit(text[q])
            THEN Some(NumVal(SubSeq(text, Len(prefix) + 1, Len(text))))
            ELSE None
        Match(prefix) ==
            IF tag # <<>> /\ tag[1] = "v" /\ Counter(Tail(tag), prefix) # None
            THEN Counter(Tail(tag), prefix)
            ELSE Counter(tag, prefix)
    IN Match(baseVersion \o <<"-">> \o suffixBase \o <<".">>)

\* getNextPrereleaseVersion: maxNum after the loop over the tags
RECURSIVE maxCounter(_, _, _, _)
maxCounter(tags, baseVersion, suffixBase, maxNum) ==
    IF tags = <<>> THEN maxNum
    ELSE LET Step(found) ==
                 IF found # None /\ found[1] > maxNum THEN found[1] ELSE maxNum
         IN maxCounter(Tail(tags), baseVersion, suffixBase,
                       Step(prereleaseCounter(Head(tags), baseVersion, suffixBase)))

\* getNextPrereleaseVersion(baseVersion, suffix, allTags)
getNextPrereleaseVersion(baseVersion, suffix, tags) ==
    LET Next(suffixBase) ==
            baseVersion \o <<"-">> \o suffixBase \o <<".">>
                \o NumStr(maxCounter(tags, baseVersion, suffixBase, 0) + 1)
    IN Next(suffixBaseOf(suffix))

(***************************************************************************)
(* SpecBump: the calls of bump mode (cli.ts, run with --bump)              *)
(***************************************************************************)
Tag_v010 == <<"v", "0", ".", "1", ".", "0">>
Tag_v199 == <<"v", "1", ".", "9", ".", "9">>
Tag_old_prefix_v100 == <<"o", "l", "d", "-", "p", "r", "e", "f", "i", "x", "-", "v", "1", ".", "0", ".", "0">>
Tag_release_v100 == <<"r", "e", "l", "e", "a", "s", "e", "_", "v", "1", ".", "0", ".", "0">>
Tag_v010rc1 == <<"v", "0", ".", "1", ".", "0", "-", "r", "c", ".", "1">>
Tag_v123beta2 == <<"v", "1", ".", "2", ".", "3", "-", "b", "e", "t", "a", ".", "2">>

\* What getLastTag gives: no tag, or the last tag
LastTagPool ==
    {None} \cup
    {Some(t) : t \in {Tag_v100, Tag_100, Tag_v010, Tag_v199, Tag_old_prefix_v100,
                      Tag_release_v100, Tag_v010rc1, Tag_v123beta2, Tag_latest}}

Raw_feat_bang_b ==
    [hash |-> <<"f", "6", "f", "6">>, body |-> <<>>,
     subject |-> <<"f", "e", "a", "t", "!", ":", " ", "b">>]
Raw_perf_x ==
    [hash |-> <<"a", "7", "a", "7">>, body |-> <<>>,
     subject |-> <<"p", "e", "r", "f", ":", " ", "x">>]
\* a breaking change told in the body
Raw_docs_footer ==
    [hash |-> <<"b", "8", "b", "8">>, body |-> <<"B", "R", "E", "A", "K", "I", "N", "G", " ", "C", "H", "A", "N", "G", "E", ":", " ", "y">>,
     subject |-> <<"d", "o", "c", "s", ":", " ", "x">>]
Raw_fix_a_bang_b ==
    [hash |-> <<"c", "9", "c", "9">>, body |-> <<"t", "h", "e", " ", "d", "e", "s", "c", "r", "i", "p", "t", "i", "o", "n", " ", "h", "o", "l", "d", "s", " ", "\"", "!", ":", "\"">>,
     subject |-> <<"f", "i", "x", ":", " ", "a", "!", ":", " ", "b">>]

\* What getCommitsSince gives
BumpCommitPool ==
    {Raw_fix_a, Raw_feat_b, Raw_update, Raw_feat_bang_b, Raw_perf_x, Raw_docs_footer,
     Raw_fix_a_bang_b}

\* The next versions that the pre-release counter is asked for
BaseVersionPool == {<<"1", ".", "0", ".", "1">>, <<"1", ".", "1", ".", "0">>}

\* The values of --suffix
SuffixPool ==
    {<<"-", "r", "c">>, <<"r", "c", ".", "3">>, <<"b", "e", "t", "a">>,
     <<"-", "r", "c", ".", "2", ".", "5">>}

\* What getTags gives in bump mode
PrereleaseTagPool ==
    {<<"v", "1", ".", "0", ".", "1", "-", "r", "c", ".", "1">>,
     <<"1", ".", "0", ".", "1", "-", "r", "c", ".", "5">>,
     <<"v", "1", ".", "0", ".", "1", "-", "b", "e", "t", "a", ".", "2">>,
     <<"v", "1", ".", "1", ".", "0", "-", "r", "c", ".", "7">>,
     <<"v", "1", ".", "0", ".", "1", "-", "r", "c", ".", "2", ".", "9">>,
     <<"x", "v", "1", ".", "0", ".", "1", "-", "r", "c", ".", "8">>}

InitBump ==
    /\ pc = "bump"
    /\ allTags = <<>>
    /\ tagMap = EmptyTagMap
    /\ call = NoCall
    /\ RunIdle

\* suggestNextVersion(commits, lastTag)
CallSuggestNextVersion(commits, lastTag) ==
    /\ pc = "bump"
    /\ call' = [op |-> "suggestNextVersion", arg |-> <<commits, lastTag>>, before |-> {},
                result |-> suggestNextVersion(commits, lastTag), found |-> FALSE]
    /\ pc' = "suggested"
    /\ UNCHANGED <<allTags, tagMap, idx, seen, changelogs, pendingCommits,
                   pendingTagInfo, logs, dates>>

\* getNextPrereleaseVersion(baseVersion, suffix, allTags) with allTags the
\* result of getTags
CallGetNextPrereleaseVersion(baseVersion, suffix, tags) ==
    /\ pc = "bump"
    /\ allTags' = tags
    /\ call' = [op |-> "getNextPrereleaseVersion", arg |-> <<baseVersion, suffix, tags>>,
                before |-> {},
                result |-> getNextPrereleaseVersion(baseVersion, suffix, tags),
                found |-> FALSE]
    /\ pc' = "counted"
    /\ UNCHANGED <<tagMap, idx, seen, changelogs, pendingCommits, pendingTagInfo,
                   logs, dates>>

NextBump ==
    \/ \E commits \in SeqsUpTo(BumpCommitPool, MaxCommits), lastTag \in LastTagPool :
           CallSuggestNextVersion(commits, lastTag)
    \/ \E baseVersion \in BaseVersionPool, suffix \in SuffixPool,
          tags \in SeqsUpTo(PrereleaseTagPool, MaxTagList) :
           CallGetNextPrereleaseVersion(baseVersion, suffix, tags)

SpecBump == InitBump /\ [][NextBump]_vars

(***************************************************************************)
(* SpecBumpRun: run with --bump, from getLastTag to the printed version    *)
(***************************************************************************)

\* The values of --prefix and --suffix, the empty string when the option is
\* not given
BumpPrefixPool == {<<>>, <<"v">>}

BumpSuffixPool == {<<>>} \cup SuffixPool

InitBumpRun ==
    /\ pc = "bump"
    /\ allTags = <<>>
    /\ tagMap = EmptyTagMap
    /\ call = NoCall
    /\ RunIdle

\* Bump mode: getLastTag returns lastTag, getCommitsSince (getCommits without
\* a last tag) returns commits, getTags returns the other tags and the last tag
BumpRun(lastTag, commits, prefix, suffix, otherTags) ==
    /\ pc = "bump"
    /\ LET Printed(result, tags) ==
               /\ allTags' = tags
               /\ call' = [op |-> "bump", arg |-> <<lastTag, commits, prefix, suffix>>,
                           before |-> {},
                           result |-> prefix \o
                               (IF suffix # <<>>
                                THEN getNextPrereleaseVersion(result.nextVersion, suffix, tags)
                                ELSE result.nextVersion),
                           found |-> FALSE]
       IN Printed(suggestNextVersion(commits, lastTag), otherTags \o lastTag)
    /\ pc' = "printed"
    /\ UNCHANGED <<tagMap, idx, seen, changelogs, pendingCommits, pendingTagInfo,
                   logs, dates>>

NextBumpRun ==
    \E lastTag \in LastTagPool, commits \in SeqsUpTo(BumpCommitPool, 1),
       prefix \in BumpPrefixPool, suffix \in BumpSuffixPool,
       otherTags \in SeqsUpTo(PrereleaseTagPool, 1) :
        BumpRun(lastTag, commits, prefix, suffix, otherTags)

SpecBumpRun == InitBumpRun /\ [][NextBumpRun]_vars

(***************************************************************************)
(* SpecRelease: pre-releases cut one after the other in bump mode, each    *)
(* returned version tagged before the next call                            *)
(***************************************************************************)

\* Most tags that the repository holds when a version is asked for
MaxReleaseTags == 3

InitRelease ==
    /\ pc = "bump"
    /\ allTags \in SeqsUpTo(PrereleaseTagPool, 1)
    /\ tagMap = EmptyTagMap
    /\ call = NoCall
    /\ RunIdle

\* getNextPrereleaseVersion(baseVersion, suffix, allTags) on the tags of the
\* repository
NextCandidate(baseVersion, suffix) ==
    /\ pc \in {"bump", "tagged"}
    /\ Len(allTags) <= MaxReleaseTags
    /\ call' = [op |-> "getNextPrereleaseVersion", arg |-> <<baseVersion, suffix, allTags>>,
                before |-> {},
                result |-> getNextPrereleaseVersion(baseVersion, suffix, allTags),
                found |-> FALSE]
    /\ pc' = "counted"
    /\ UNCHANGED <<allTags, tagMap, idx, seen, changelogs, pendingCommits,
                   pendingTagInfo, logs, dates>>

\* tags.push("v" + version): the returned version is tagged
TagCandidate ==
    /\ pc = "counted"
    /\ Len(allTags) < MaxReleaseTags
    /\ allTags' = Append(allTags, <<"v">> \o call.result)
    /\ pc' = "tagged"
    /\ UNCHANGED <<tagMap, idx, seen, changelogs, pendingCommits, pendingTagInfo,
                   logs, dates, call>>

NextRelease ==
    \/ \E baseVersion \in BaseVersionPool, suffix \in SuffixPool :
           NextCandidate(baseVersion, suffix)
    \/ TagCandidate

SpecRelease == InitRelease /\ [][NextRelease]_vars

(***************************************************************************)
(* formatter.ts (remote is null: headers and hashes carry no links)        *)
(***************************************************************************)

\* TYPE_LABELS[type] || type
TypeLabel(type) ==
    CASE type = <<"f", "e", "a", "t">> -> <<"F", "e", "a", "t", "u", "r", "e", "s">>
      [] type = <<"f", "i", "x">> -> <<"B", "u", "g", " ", "F", "i", "x", "e", "s">>
      [] type = <<"d", "o", "c", "s">> -> <<"D", "o", "c", "u", "m", "e", "n", "t", "a", "t", "i", "o", "n">>
      [] type = <<"s", "t", "y", "l", "e">> -> <<"S", "t", "y", "l", "e", "s">>
      [] type = <<"r", "e", "f", "a", "c", "t", "o", "r">> -> <<"C", "o", "d", "e", " ", "R", "e", "f", "a", "c", "t", "o", "r", "i", "n", "g">>
      [] type = <<"p", "e", "r", "f">> -> <<"P", "e", "r", "f", "o", "r", "m", "a", "n", "c", "e", " ", "I", "m", "p", "r", "o", "v", "e", "m", "e", "n", "t", "s">>
      [] type = <<"t", "e", "s", "t">> -> <<"T", "e", "s", "t", "s">>
      [] type = <<"b", "u", "i", "l", "d">> -> <<"B", "u", "i", "l", "d", " ", "S", "y", "s", "t", "e", "m">>
      [] type = <<"c", "i">> -> <<"C", "o", "n", "t", "i", "n", "u", "o", "u", "s", " ", "I", "n", "t", "e", "g", "r", "a", "t", "i", "o", "n">>
      [] type = <<"c", "h", "o", "r", "e">> -> <<"C", "h", "o", "r", "e", "s">>
      [] type = <<"r", "e", "v", "e", "r", "t">> -> <<"R", "e", "v", "e", "r", "t", "s">>
      [] OTHER -> type

TYPE_ORDER ==
    <<<<"f", "e", "a", "t">>,
      <<"f", "i", "x">>,
      <<"p", "e", "r", "f">>,
      <<"r", "e", "f", "a", "c", "t", "o", "r">>,
      <<"d", "o", "c", "s">>,
      <<"s", "t", "y", "l", "e">>,
      <<"t", "e", "s", "t">>,
      <<"b", "u", "i", "l", "d">>,
      <<"c", "i">>,
      <<"c", "h", "o", "r", "e">>,
      <<"r", "e", "v", "e", "r", "t">>>>

VISIBLE_TYPES ==
    {<<"f", "e", "a", "t">>, <<"f", "i", "x">>, <<"p", "e", "r", "f">>,
     <<"r", "e", "v", "e", "r", "t">>}

\* The characters of a date of the model
DateText(date) ==
    IF date = "" THEN <<>> ELSE <<"2", "0", "2", "4", "-", "0", "1", "-", "1", "5">>

\* formatHeader(displayTag, date, null)
formatHeader(displayTag, date) ==
    IF date # ""
    THEN <<"#", "#", " ">> \o displayTag \o <<" ", "(">> \o DateText(date) \o <<")">>
    ELSE <<"#", "#", " ">> \o displayTag

\* formatHashLink(hash, null)
formatHashLink(hash) ==
    <<"(">> \o SubSeq(hash, 1, IF Len(hash) < 7 THEN Len(hash) ELSE 7) \o <<")">>

\* `- ${scope}${subject} ${hashLink}`
formatCommitLine(commit) ==
    <<"-", " ">>
        \o (IF commit.scope # None /\ commit.scope[1] # <<>>
            THEN <<"*", "*">> \o commit.scope[1] \o <<"*", "*", ":", " ">>
            ELSE <<>>)
        \o commit.subject \o <<" ">> \o formatHashLink(commit.hash)

\* The lines of commits, one per commit
commitLines(commits) == [i \in 1..Len(commits) |-> formatCommitLine(commits[i])]

BreakingHeading == <<"#", "#", "#", " ", "⚠", " ", "B", "R", "E", "A", "K", "I", "N", "G", " ", "C", "H", "A", "N", "G", "E", "S">>

\* The breaking section of an entry
breakingLines(filteredCommits) ==
    LET Section(breakingCommits) ==
            IF Len(breakingCommits) > 0
            THEN <<BreakingHeading, <<>>>> \o commitLines(breakingCommits) \o <<<<>>>>
            ELSE <<>>
    IN Section(SelectSeq(filteredCommits, LAMBDA c : c.breaking))

\* The sections of the types from place k of TYPE_ORDER on (groupByType and
\* the loop over TYPE_ORDER)
RECURSIVE typeLines(_, _)
typeLines(filteredCommits, k) ==
    IF k > Len(TYPE_ORDER) THEN <<>>
    ELSE LET Section(typeCommits) ==
                 IF Len(typeCommits) = 0 THEN <<>>
                 ELSE <<<<"#", "#", "#", " ">> \o TypeLabel(TYPE_ORDER[k]), <<>>>>
                          \o commitLines(typeCommits) \o <<<<>>>>
         IN Section(SelectSeq(filteredCommits, LAMBDA c : c.type = TYPE_ORDER[k]))
                \o typeLines(filteredCommits, k + 1)

\* Mutant of entryLines: an entry without commits to show has its header
entryLines_NoSkip(entry, verbose) ==
    LET Lines(filteredCommits) ==
            <<formatHeader(entry.displayTag, entry.date), <<>>>>
                \o breakingLines(filteredCommits) \o typeLines(filteredCommits, 1)
    IN Lines(IF verbose THEN entry.commits
             ELSE SelectSeq(entry.commits, LAMBDA c : c.type \in VISIBLE_TYPES))

\* formatChangelog: the lines pushed in one pass of the loop
entryLines(entry, verbose) ==
    LET Lines(filteredCommits) ==
            IF Len(entry.commits) = 0 \/ Len(filteredCommits) = 0 THEN <<>>
            ELSE <<formatHeader(entry.displayTag, entry.date), <<>>>>
                     \o breakingLines(filteredCommits) \o typeLines(filteredCommits, 1)
    IN Lines(IF verbose THEN entry.commits
             ELSE SelectSeq(entry.commits, LAMBDA c : c.type \in VISIBLE_TYPES))

\* The lines of the entries from place i down to the first: the loop over
\* [...changelogs].reverse()
RECURSIVE entriesLines(_, _, _)
entriesLines(entries, i, verbose) ==
    IF i = 0 THEN <<>>
    ELSE entryLines(entries[i], verbose) \o entriesLines(entries, i - 1, verbose)

\* lines.join("\n")
RECURSIVE joinLines(_)
joinLines(lines) ==
    IF lines = <<>> THEN <<>>
    ELSE IF Len(lines) = 1 THEN lines[1]
    ELSE lines[1] \o <<"\n">> \o joinLines(Tail(lines))

\* formatChangelog(changelogs, {remote: null, verbose})
formatChangelog(entries, verbose) ==
    TrimEnd(joinLines(<<<<"#", " ", "C", "h", "a", "n", "g", "e", "l", "o", "g">>, <<>>>>
                          \o entriesLines(entries, Len(entries), verbose)))
        \o <<"\n">>

(***************************************************************************)
(* Spec: one run of the command line in changelog mode (cli.ts, run)       *)
(***************************************************************************)

\* The tags of the repository, in the order in which `git tag` lists them
RepoTags ==
    <<Tag_latest, Tag_old_v100, Tag_v090, Tag_v100, Tag_v100alpha, Tag_v100rc2>>

\* Most tags that the repository of a run holds
MaxTags == 3

\* The elements of s at the places I, in their order in s
SubsequenceAt(s, I) ==
    [k \in 1..Cardinality(I) |->
        s[CHOOSE i \in I : Cardinality({j \in I : j <= i}) = k]]

\* What getTags can return
TagLists ==
    {SubsequenceAt(RepoTags, I) :
        I \in {J \in SUBSET (1..Len(RepoTags)) : Cardinality(J) <= MaxTags}}

\* What getCommits can return for a tag (git log lists the newest commit first)
LogPool ==
    {<<>>,
     <<Raw_fix_a>>,
     <<Raw_feat_b, Raw_fix_a>>,
     <<Raw_FIX_A, Raw_update, Raw_feat_b, Raw_fix_a>>}

\* What getTagDate can return: the date, or "" when git fails
Dates == {"", "2024-01-15"}

\* pendingTagInfo.display.replace(/^v/, "")
stripLeadingV(s) == IF s # <<>> /\ s[1] = "v" THEN Tail(s) ELSE s

\* Mutant of capturePending: the identity is taken from every pre-release
capturePending_Always(pending, tagInfo, date) ==
    Some([display |-> tagInfo.display, original |-> tagInfo.original, date |-> date])

\* if (!pendingTagInfo) pendingTagInfo = {display, original, date}
capturePending(pending, tagInfo, date) ==
    IF pending = None
    THEN Some([display |-> tagInfo.display, original |-> tagInfo.original, date |-> date])
    ELSE pending

\* Mutant of stableEntry: a pending identity, when there is one, labels the group
stableEntry_PendingIdentity(version, tagInfo, date, commits) ==
    IF pendingTagInfo # None
    THEN [tag |-> stripLeadingV(pendingTagInfo[1].display),
          displayTag |-> pendingTagInfo[1].display,
          originalTag |-> pendingTagInfo[1].original,
          date |-> pendingTagInfo[1].date,
          commits |-> commits]
    ELSE [tag |-> version, displayTag |-> tagInfo.display,
          originalTag |-> tagInfo.original, date |-> date, commits |-> commits]

\* The TagChangelog pushed for a stable version
stableEntry(version, tagInfo, date, commits) ==
    [tag |-> version, displayTag |-> tagInfo.display,
     originalTag |-> tagInfo.original, date |-> date, commits |-> commits]

\* Mutant of finalChangelogs: the pending commits are dropped after the walk
finalChangelogs_Dropped(entries, pending, pendingInfo) == entries

\* Mutant of finalChangelogs: the group of the pending commits is put first
finalChangelogs_First(entries, pending, pendingInfo) ==
    IF Len(pending) > 0 /\ pendingInfo # None
    THEN <<[tag |-> stripLeadingV(pendingInfo[1].display),
            displayTag |-> pendingInfo[1].display,
            originalTag |-> pendingInfo[1].original,
            date |-> pendingInfo[1].date,
            commits |-> pending]>> \o entries
    ELSE entries

\* The block after the loop: changelogs once the pending commits are pushed
finalChangelogs(entries, pending, pendingInfo) ==
    IF Len(pending) > 0 /\ pendingInfo # None
    THEN Append(entries,
                [tag |-> stripLeadingV(pendingInfo[1].display),
                 displayTag |-> pendingInfo[1].display,
                 originalTag |-> pendingInfo[1].original,
                 date |-> pendingInfo[1].date,
                 commits |-> pending])
    ELSE entries

\* Mutant of accumulate: a pre-release does not keep the commits pending
accumulate_Forget(pending, uniqueCommits) == uniqueCommits

\* pendingCommits = [...pendingCommits, ...uniqueCommits]
accumulate(pending, uniqueCommits) == pending \o uniqueCommits

\* Mutant of dedupeAgainst: every version is deduplicated against a new set
dedupeAgainst_NewSet(commits, seenSet) ==
    [result |-> dedupeCommits(commits, {}).result,
     seen |-> dedupeCommits(commits, seenSet).seen]

\* const uniqueCommits = dedupeCommits(conventionalCommits, seenSet)
dedupeAgainst(commits, seenSet) == dedupeCommits(commits, seenSet)

\* Mutant of pendingAfterStable: the identity is kept when the commits are
\* cleared
pendingAfterStable_Kept(pending) == pending

\* pendingTagInfo = null, after the push for a stable version
pendingAfterStable(pending) == None

Init ==
    /\ pc = "start"
    /\ allTags \in TagLists
    /\ tagMap = EmptyTagMap
    /\ call = NoCall
    /\ RunIdle

\* What the run keeps of isGitRepository(cwd)
RepositoryCheck(isRepository) ==
    [op |-> "isGitRepository", arg |-> <<>>, before |-> {}, result |-> isRepository,
     found |-> FALSE]

\* Mutant of noValidVersions: the tags of the repository are counted, not the
\* versions found in them
noValidVersions_RawTags(tags, map) == tags = <<>>

\* tagMap.versions.length === 0
noValidVersions(tags, map) == map.versions = <<>>

\* Mutant of newDeduplicationSet: the set is shared by the runs of a process
newDeduplicationSet_Static(left) == left

\* new DeduplicationSet(): the set of a run, whatever an earlier run has left
newDeduplicationSet(left) == {}

\* isGitRepository(cwd) is false: the error is printed and the process exits
ExitNotRepository ==
    /\ pc = "start"
    /\ call' = RepositoryCheck(FALSE)
    /\ pc' = "exit1"
    /\ UNCHANGED <<allTags, tagMap, idx, seen, changelogs, pendingCommits,
                   pendingTagInfo, logs, dates>>

\* getTags throws: `git tag` failed, and nothing catches it
GetTagsThrows ==
    /\ pc = "start"
    /\ call' = RepositoryCheck(TRUE)
    /\ pc' = "crashed"
    /\ UNCHANGED <<allTags, tagMap, idx, seen, changelogs, pendingCommits,
                   pendingTagInfo, logs, dates>>

\* No valid semver tag: the error is printed and the process exits
ExitNoVersions ==
    /\ pc = "start"
    /\ call' = RepositoryCheck(TRUE)
    /\ tagMap' = normalizeTags(allTags)
    /\ noValidVersions(allTags, tagMap')
    /\ pc' = "exit1"
    /\ UNCHANGED <<allTags, idx, seen, changelogs, pendingCommits,
                   pendingTagInfo, logs, dates>>

\* getTags, normalizeTags, and the state that the walk starts from
StartWalk ==
    /\ pc = "start"
    /\ call' = RepositoryCheck(TRUE)
    /\ tagMap' = normalizeTags(allTags)
    /\ ~noValidVersions(allTags, tagMap')
    /\ seen' = newDeduplicationSet(seen)
    /\ changelogs' = <<>>
    /\ pendingCommits' = <<>>
    /\ pendingTagInfo' = None
    /\ idx' = 1
    /\ pc' = "walk"
    /\ UNCHANGED <<allTags, logs, dates>>

\* One pass of the loop over tagMap.versions, getTagDate returning date and
\* getCommits returning log
WalkStep(log, date) ==
    /\ pc = "walk"
    /\ idx <= Len(tagMap.versions)
    /\ LET Body(version, tagInfo, d) ==
               /\ seen' = d.seen
               /\ IF isPreRelease(version)
                  THEN /\ pendingCommits' = accumulate(pendingCommits, d.result)
                       /\ pendingTagInfo' = capturePending(pendingTagInfo, tagInfo, date)
                       /\ UNCHANGED changelogs
                  ELSE /\ changelogs' =
                             Append(changelogs,
                                    stableEntry(version, tagInfo, date,
                                                accumulate(pendingCommits, d.result)))
                       /\ pendingCommits' = <<>>
                       /\ pendingTagInfo' = pendingAfterStable(pendingTagInfo)
       IN Body(tagMap.versions[idx], tagMap.tags[tagMap.versions[idx]],
               dedupeAgainst(conventionalCommits(log), seen))
    /\ logs' = Append(logs, log)
    /\ dates' = Append(dates, date)
    /\ idx' = idx + 1
    /\ UNCHANGED <<pc, allTags, tagMap, call>>

\* getCommits throws (git log fails on the tag): run() rejects
WalkThrows ==
    /\ pc = "walk"
    /\ idx <= Len(tagMap.versions)
    /\ pc' = "crashed"
    /\ UNCHANGED <<allTags, tagMap, idx, seen, changelogs, pendingCommits,
                   pendingTagInfo, logs, dates, call>>

\* The block after the loop, formatChangelog and writeOutput: the text that is
\* written is kept as the result of the call
Finish(verbose) ==
    /\ pc = "walk"
    /\ idx > Len(tagMap.versions)
    /\ LET Written(entries) ==
               /\ changelogs' = entries
               /\ call' = [op |-> "formatChangelog", arg |-> <<entries, verbose>>,
                           before |-> {}, result |-> formatChangelog(entries, verbose),
                           found |-> FALSE]
       IN Written(finalChangelogs(changelogs, pendingCommits, pendingTagInfo))
    /\ pc' = "done"
    /\ UNCHANGED <<allTags, tagMap, idx, seen, pendingCommits, pendingTagInfo,
                   logs, dates>>

Next ==
    \/ ExitNotRepository
    \/ GetTagsThrows
    \/ ExitNoVersions
    \/ StartWalk
    \/ \E log \in LogPool, date \in Dates : WalkStep(log, date)
    \/ WalkThrows
    \/ \E verbose \in BOOLEAN : Finish(verbose)

Spec == Init /\ [][Next]_vars

(***************************************************************************)
(* git.ts: parseCommitOutput                                               *)
(***************************************************************************)

HexSet == DigitSet \cup {"a", "b", "c", "d", "e", "f", "A", "B", "C", "D", "E", "F"}

\* /^[a-f0-9]{4,40}$/i.test(s.trim())
isValidHashStart(s) ==
    LET Test(t) == Len(t) >= 4 /\ Len(t) <= 40 /\ \A i \in 1..Len(t) : t[i] \in HexSet
    IN Test(trim(s))

\* s.includes("|")
HasPipe(s) == \E i \in 1..Len(s) : s[i] = "|"

\* s.lastIndexOf("|"), counted from 1; 0 when there is none
LastPipe(s) ==
    IF HasPipe(s) THEN CHOOSE i \in 1..Len(s) : s[i] = "|" /\ \A j \in (i + 1)..Len(s) : s[j] # "|"
    ELSE 0

\* The commit pushed when a record ends
pushedCommit(cur) == [hash |-> cur.hash, subject |-> cur.subject, body |-> trim(cur.body)]

\* The state after a line that starts a record: the commit before is pushed,
\* and the rest of the line is cut at its last "|"
startRecord(cur, line) ==
    LET First(i) ==
            LET Cut(hash, remaining, separatorIndex) ==
                    [commits |-> IF cur.hash # <<>>
                                 THEN Append(cur.commits, pushedCommit(cur))
                                 ELSE cur.commits,
                     hash |-> hash,
                     subject |-> IF separatorIndex > 0
                                 THEN SubSeq(remaining, 1, separatorIndex - 1)
                                 ELSE remaining,
                     body |-> IF separatorIndex > 0
                              THEN SubSeq(remaining, separatorIndex + 1, Len(remaining))
                              ELSE <<>>]
                Rest(hash, remaining) == Cut(hash, remaining, LastPipe(remaining))
            IN Rest(SubSeq(line, 1, i - 1), SubSeq(line, i + 1, Len(line)))
    IN First(CHOOSE i \in 1..Len(line) : line[i] = "|" /\ \A j \in 1..(i - 1) : line[j] # "|")

\* The loop of parseCommitOutput over the lines from k on
RECURSIVE parseLines(_, _, _)
parseLines(lines, k, cur) ==
    IF k > Len(lines) THEN cur
    ELSE IF HasPipe(lines[k]) /\ isValidHashStart(Split(lines[k], "|")[1])
         THEN parseLines(lines, k + 1, startRecord(cur, lines[k]))
         ELSE IF cur.hash # <<>>
              THEN parseLines(lines, k + 1,
                              [cur EXCEPT !.body =
                                  (IF cur.body # <<>> THEN cur.body \o <<"\n">> ELSE <<>>)
                                  \o lines[k]])
              ELSE parseLines(lines, k + 1, cur)

\* parseCommitOutput(output)
parseCommitOutput(output) ==
    LET End(cur) == IF cur.hash # <<>> THEN Append(cur.commits, pushedCommit(cur))
                    ELSE cur.commits
    IN End(parseLines(Split(trim(output), "\n"), 1,
                      [commits |-> <<>>, hash |-> <<>>, subject |-> <<>>, body |-> <<>>]))

\* What git log --format="%H|%s|%b" writes for the commits: one record each
RECURSIVE gitLogOutput(_)
gitLogOutput(commits) ==
    IF commits = <<>> THEN <<>>
    ELSE Head(commits).hash \o <<"|">> \o Head(commits).subject \o <<"|">>
         \o Head(commits).body \o <<"\n">> \o gitLogOutput(Tail(commits))

(***************************************************************************)
(* SpecLog: getCommits on the log of an arbitrary list of commits          *)
(***************************************************************************)

LogHashes == {<<"a", "1", "b", "2", "c", "3", "d">>, <<"0", "F", "0", "F">>}

LogSubjects == {<<"f", "i", "x", ":", " ", "a">>, <<"f", "e", "a", "t", ":", " ", "a", "|", "b">>}

LogBodies ==
    {<<>>, <<"x", "\n", "y", " ", "z">>, <<"\n", "x", " ", "\n">>,
     <<"a", " ", "|", " ", "b">>, <<"x", "\n", "c", "a", "f", "e", "|", "y">>}

MaxLogged == 2

LoggedCommits == [hash : LogHashes, subject : LogSubjects, body : LogBodies]

InitLog ==
    /\ pc = "log"
    /\ allTags = <<>>
    /\ tagMap = EmptyTagMap
    /\ call = NoCall
    /\ RunIdle

\* getCommits(tag, cwd) in a repository where the log of the tag holds commits
CallGetCommits(commits) ==
    /\ pc = "log"
    /\ LET Parsed(output) ==
               call' = [op |-> "parseCommitOutput", arg |-> commits, before |-> {},
                        result |-> parseCommitOutput(output), found |-> FALSE]
       IN Parsed(gitLogOutput(commits))
    /\ pc' = "parsed"
    /\ UNCHANGED <<allTags, tagMap, idx, seen, changelogs, pendingCommits,
                   pendingTagInfo, logs, dates>>

NextLog == \E commits \in SeqsUpTo(LoggedCommits, MaxLogged) : CallGetCommits(commits)

SpecLog == InitLog /\ [][NextLog]_vars

(***************************************************************************)
(* SpecFormat: formatChangelog called on arbitrary release groups          *)
(***************************************************************************)

Raw_refactor_bang_c ==
    [hash |-> <<"c", "3", "c", "3">>, body |-> <<>>,
     subject |-> <<"r", "e", "f", "a", "c", "t", "o", "r", "!", ":", " ", "c">>]

\* The raw commits of the groups that are formatted
FormatRawPool == {Raw_fix_a, Raw_feat_bang_b, Raw_refactor_bang_c}

\* The release groups of display tag displayTag, one per list of commits
GroupsOf(displayTag, date) ==
    {[tag |-> stripLeadingV(displayTag), displayTag |-> displayTag,
      originalTag |-> displayTag, date |-> date,
      commits |-> conventionalCommits(raws)] :
        raws \in SeqsUpTo(FormatRawPool, MaxCommits)}

\* The changelogs that are formatted: one group, or two
FormatInputs ==
    {<<g>> : g \in GroupsOf(Tag_v100, "2024-01-15")}
        \cup {<<g, h>> : g \in GroupsOf(Tag_v100, "2024-01-15"), h \in GroupsOf(Tag_v120, "")}

InitFormat ==
    /\ pc = "format"
    /\ allTags = <<>>
    /\ tagMap = EmptyTagMap
    /\ call = NoCall
    /\ RunIdle

\* formatChangelog(entries, {remote: null, verbose})
CallFormatChangelog(entries, verbose) ==
    /\ pc = "format"
    /\ call' = [op |-> "formatChangelog", arg |-> <<entries, verbose>>, before |-> {},
                result |-> formatChangelog(entries, verbose), found |-> FALSE]
    /\ pc' = "formatted"
    /\ UNCHANGED <<allTags, tagMap, idx, seen, changelogs, pendingCommits,
                   pendingTagInfo, logs, dates>>

NextFormat ==
    \E entries \in FormatInputs, verbose \in BOOLEAN : CallFormatChangelog(entries, verbose)

SpecFormat == InitFormat /\ [][NextFormat]_vars

(***************************************************************************)
(* SpecRerun: the action of run invoked again in the same process          *)
(***************************************************************************)

\* The tag lists of the repositories that are run twice
RerunTagLists ==
    {<<Tag_latest>>,
     <<Tag_v090, Tag_v100>>,
     <<Tag_v100, Tag_v100alpha>>,
     <<Tag_v100alpha, Tag_v100rc2>>}

InitRerun ==
    /\ pc = "start"
    /\ allTags \in RerunTagLists
    /\ tagMap = EmptyTagMap
    /\ call = NoCall
    /\ RunIdle

\* A further run in the same repository, up to the start of its walk: what the
\* run before has read and written is kept in call, and the variables of the
\* run before are what the new run finds
RunAgain ==
    /\ pc = "done"
    /\ call' = [op |-> "run", arg |-> <<logs, dates>>, before |-> seen,
                result |-> changelogs, found |-> FALSE]
    /\ tagMap' = normalizeTags(allTags)
    /\ ~noValidVersions(allTags, tagMap')
    /\ seen' = newDeduplicationSet(seen)
    /\ changelogs' = <<>>
    /\ pendingCommits' = <<>>
    /\ pendingTagInfo' = None
    /\ idx' = 1
    /\ logs' = <<>>
    /\ dates' = <<>>
    /\ pc' = "walk"
    /\ UNCHANGED allTags

NextRerun ==
    \/ Next
    \/ RunAgain

SpecRerun == InitRerun /\ [][NextRerun]_vars

(***************************************************************************)
(* SpecAction: runAction of index.ts, run in the repository after run      *)
(***************************************************************************)

\* The TagChangelog that runAction pushes for a stable version
runActionEntry(version, tagInfo, date, commits) ==
    [tag |-> version, displayTag |-> tagInfo.display,
     originalTag |-> tagInfo.original, date |-> date, commits |-> commits]

\* Mutant of runActionChangelogs: the display tag labels the last group as it is
runActionChangelogs_DisplayLabel(entries, pending, pendingInfo) ==
    IF Len(pending) > 0 /\ pendingInfo # None
    THEN Append(entries,
                [tag |-> pendingInfo[1].display,
                 displayTag |-> pendingInfo[1].display,
                 originalTag |-> pendingInfo[1].original,
                 date |-> pendingInfo[1].date,
                 commits |-> pending])
    ELSE entries

\* The block after the loop of runAction
runActionChangelogs(entries, pending, pendingInfo) ==
    IF Len(pending) > 0 /\ pendingInfo # None
    THEN Append(entries,
                [tag |-> (IF pendingInfo[1].display # <<>> /\ pendingInfo[1].display[1] = "v"
                          THEN Tail(pendingInfo[1].display)
                          ELSE pendingInfo[1].display),
                 displayTag |-> pendingInfo[1].display,
                 originalTag |-> pendingInfo[1].original,
                 date |-> pendingInfo[1].date,
                 commits |-> pending])
    ELSE entries

\* runAction up to the start of its loop, in the repository that run has just
\* walked: what run has read and assembled is kept in call
RunActionStart ==
    /\ pc = "done"
    /\ call' = [op |-> "run", arg |-> <<logs, dates>>, before |-> seen,
                result |-> changelogs, found |-> FALSE]
    /\ tagMap' = normalizeTags(allTags)
    /\ tagMap'.versions # <<>>
    /\ seen' = {}
    /\ changelogs' = <<>>
    /\ pendingCommits' = <<>>
    /\ pendingTagInfo' = None
    /\ idx' = 1
    /\ logs' = <<>>
    /\ dates' = <<>>
    /\ pc' = "actionWalk"
    /\ UNCHANGED allTags

\* One pass of the loop of runAction, getTagDate returning date and getCommits
\* returning log
RunActionStep(log, date) ==
    /\ pc = "actionWalk"
    /\ idx <= Len(tagMap.versions)
    /\ LET Body(version, tagInfo, d) ==
               /\ seen' = d.seen
               /\ IF isPreRelease(version)
                  THEN /\ pendingCommits' = pendingCommits \o d.result
                       /\ pendingTagInfo' =
                             (IF pendingTagInfo = None
                              THEN Some([display |-> tagInfo.display,
                                         original |-> tagInfo.original,
                                         date |-> date])
                              ELSE pendingTagInfo)
                       /\ UNCHANGED changelogs
                  ELSE /\ changelogs' =
                             Append(changelogs,
                                    runActionEntry(version, tagInfo, date,
                                                   pendingCommits \o d.result))
                       /\ pendingCommits' = <<>>
                       /\ pendingTagInfo' = None
       IN Body(tagMap.versions[idx], tagMap.tags[tagMap.versions[idx]],
               dedupeCommits(conventionalCommits(log), seen))
    /\ logs' = Append(logs, log)
    /\ dates' = Append(dates, date)
    /\ idx' = idx + 1
    /\ UNCHANGED <<pc, allTags, tagMap, call>>

\* getCommits throws in the loop of runAction: runAction() rejects
RunActionThrows ==
    /\ pc = "actionWalk"
    /\ idx <= Len(tagMap.versions)
    /\ pc' = "crashed"
    /\ UNCHANGED <<allTags, tagMap, idx, seen, changelogs, pendingCommits,
                   pendingTagInfo, logs, dates, call>>

\* The block after the loop of runAction, formatChangelog and writeOutput
RunActionFinish(verbose) ==
    /\ pc = "actionWalk"
    /\ idx > Len(tagMap.versions)
    /\ LET Written(entries) ==
               /\ changelogs' = entries
               /\ call' = [op |-> "formatChangelog", arg |-> <<entries, verbose>>,
                           before |-> {}, result |-> formatChangelog(entries, verbose),
                           found |-> FALSE]
       IN Written(runActionChangelogs(changelogs, pendingCommits, pendingTagInfo))
    /\ pc' = "actionDone"
    /\ UNCHANGED <<allTags, tagMap, idx, seen, pendingCommits, pendingTagInfo,
                   logs, dates>>

NextAction ==
    \/ Next
    \/ RunActionStart
    \/ \E log \in LogPool, date \in Dates : RunActionStep(log, date)
    \/ RunActionThrows
    \/ \E verbose \in BOOLEAN : RunActionFinish(verbose)

SpecAction == InitRerun /\ [][NextAction]_vars

(***************************************************************************)
(* Claims about normalizeTags (SpecTags)                                   *)
(***************************************************************************)

\* s holds a "-"
HasDash(s) == \E i \in 1..Len(s) : s[i] = "-"

\* The valid version that each tag of the model carries, None when it has none
VersionOfTag ==
    [t \in TagPool |-> IF isValidVersion(t) THEN extractVersion(t) ELSE None]

\* The versions that the tags of a list carry: extracted and valid
ValidVersionsOf(tags) == {VersionOfTag[tags[i]] : i \in 1..Len(tags)} \ {None}

\* version is base followed by "-" and a pre-release part
IsPreReleaseOfBase(version, base) ==
    /\ \A i \in 1..Len(base) : base[i] # "-"
    /\ Len(version) > Len(base) + 1
    /\ SubSeq(version, 1, Len(base) + 1) = base \o <<"-">>

\* C9: the versions sequence of normalizeTags holds exactly the distinct valid
\* versions of the tags (other tags are dropped), has no duplicates and is
\* strictly ascending in semver precedence, every pre-release of a base
\* version standing before that base version.
C9_VersionsDistinctAscending ==
    pc = "normalized" =>
        LET v == tagMap.versions
        IN /\ Range(v) = ValidVersionsOf(allTags)
           /\ \A i, j \in 1..Len(v) : i # j => v[i] # v[j]
           /\ \A i, j \in 1..Len(v) : i < j => semverCompare(v[i], v[j]) < 0
           /\ \A i, j \in 1..Len(v) : IsPreReleaseOfBase(v[i], v[j]) => i < j

\* C9 witness: an unsorted list with an invalid tag and a stable tag listed
\* before its own pre-release has been normalized.
C9_Witness ==
    /\ pc = "normalized"
    /\ \E k \in 1..Len(allTags) : VersionOfTag[allTags[k]] = None
    /\ Len(tagMap.versions) = 2
    /\ IsPreReleaseOfBase(tagMap.versions[1], tagMap.versions[2])
    /\ \E i, j \in 1..Len(allTags) :
          /\ i < j
          /\ VersionOfTag[allTags[i]] = tagMap.versions[2]
          /\ VersionOfTag[allTags[j]] = tagMap.versions[1]

\* The originals of a tag list that carry a version
OriginalsOf(tags, version) ==
    {tags[i] : i \in {k \in 1..Len(tags) : VersionOfTag[tags[k]] = version}}

\* An original that starts with "v" followed by a digit
StartsWithVDigit(t) == Len(t) >= 2 /\ t[1] = "v" /\ t[2] \in DigitSet

\* C10: normalizeTags keeps exactly one TagInfo per version, with clean the
\* version and display "v" + version; its original is one of the tags of that
\* version, starts with "v" and a digit if any of them does, and is of minimal
\* length among those that agree with it on that rule.
C10_CanonicalTieBreak ==
    pc = "normalized" =>
        /\ DOMAIN tagMap.tags = Range(tagMap.versions)
        /\ \A v \in Range(tagMap.versions) :
              LET info == tagMap.tags[v]
                  cands == OriginalsOf(allTags, v)
              IN /\ info.clean = v
                 /\ info.display = <<"v">> \o v
                 /\ info.original \in cands
                 /\ (\E t \in cands : StartsWithVDigit(t)) => StartsWithVDigit(info.original)
                 /\ \A t \in cands :
                       StartsWithVDigit(t) = StartsWithVDigit(info.original)
                           => Len(info.original) <= Len(t)

\* C10 witness: a version with a shorter original without "v" and two
\* v-prefixed originals of different lengths has been normalized.
C10_Witness ==
    /\ pc = "normalized"
    /\ \E v \in Range(tagMap.versions) :
          \E t1, t2, t3 \in OriginalsOf(allTags, v) :
              /\ StartsWithVDigit(t1) /\ StartsWithVDigit(t2) /\ ~StartsWithVDigit(t3)
              /\ Len(t3) < Len(t1) /\ Len(t1) < Len(t2)
              /\ tagMap.tags[v].original = t1

\* C11: normalizeTags is idempotent on its output: normalizeTags of the display
\* tags ("v" + version) of normalizeTags(T) has the same versions in the same
\* order and the same set of display tags.
C11_NormalizeTagsIdempotent ==
    pc = "renormalized" =>
        /\ \A i \in 1..Len(call.arg) :
              \E v \in Range(tagMap.versions) : call.arg[i] = <<"v">> \o v
        /\ call.result.versions = tagMap.versions
        /\ Range(DisplayTags(call.result)) = {<<"v">> \o v : v \in Range(tagMap.versions)}

\* The second call on the display tags, in descending order, of a list with a
\* decorated tag and a pre-release
C11_Witness ==
    /\ pc = "renormalized"
    /\ Len(tagMap.versions) >= 2
    /\ call.arg[1] # <<"v">> \o tagMap.versions[1]
    /\ \E i \in 1..Len(allTags) : allTags[i] \in {Tag_old_v100, Tag_v200_100}
    /\ \E i \in 1..Len(tagMap.versions) : HasDash(tagMap.versions[i])
    /\ Range(call.arg) # Range(allTags)

\* C20: sortTagsBySemver and normalizeTags never change the tag list that they
\* are given: after the call it has the same elements in the same order.
C20_TagListNotMutated ==
    pc \in {"normalized", "sorted"} => allTags = call.arg

\* sortTagsBySemver has returned another order than the one of its argument
C20_Witness ==
    /\ pc = "sorted"
    /\ Len(call.arg) >= 2
    /\ Len(call.result) = Len(call.arg)
    /\ call.result # call.arg
    /\ allTags = call.arg

(***************************************************************************)
(* Claims about the DeduplicationSet and dedupeCommits (SpecDedup)         *)
(***************************************************************************)

\* The three parts that a commit is compared by, letter case put aside
KeyParts(commit) ==
    <<toLowerCase(commit.type),
      IF commit.scope = None THEN None ELSE Some(toLowerCase(commit.scope[1])),
      toLowerCase(commit.subject)>>

\* The places of commits whose key is neither in before nor at an earlier place
FirstOccurrences(commits, before) ==
    {i \in 1..Len(commits) :
        /\ getKey(commits[i]) \notin before
        /\ \A j \in 1..(i - 1) : getKey(commits[j]) # getKey(commits[i])}

\* C6: dedupeCommits returns exactly the commits of its input whose key was
\* not in the set before the call and did not occur earlier in the input, in
\* the order of the input, and afterwards the set holds the key of every
\* commit of the input.
C6_DedupeCommitsKeepsFirstOccurrences ==
    call.op = "dedupeCommits" =>
        /\ call.result = SubsequenceAt(call.arg, FirstOccurrences(call.arg, call.before))
        /\ \A i \in 1..Len(call.arg) : getKey(call.arg[i]) \in seen

\* A call that drops a commit for the set and another for the input before it
C6_Witness ==
    /\ call.op = "dedupeCommits"
    /\ Len(call.arg) = 2
    /\ call.arg[1].hash # call.arg[2].hash
    /\ getKey(call.arg[1]) = getKey(call.arg[2])
    /\ call.before # {}
    /\ Len(call.result) = 1

\* C7: for two commits made by parseConventionalCommit, has(c2) after add(c1)
\* on an empty set is true exactly when c1 and c2 have the same type, the
\* same scope (no scope equals only no scope) and the same subject, letter
\* case put aside; the hashes play no part.
C7_HasAfterAddIffSameKeyParts ==
    [][(call.op = "add" /\ call.before = {} /\ call'.op = "has")
          => (call'.found <=> KeyParts(call.arg[1]) = KeyParts(call'.arg[1]))]_vars

\* has answers true for a commit of another hash and another letter case than
\* the one commit that was added
C7_Witness ==
    /\ call.op = "has"
    /\ call.found
    /\ call.arg[1].hash = Raw_fix_UI_A.hash
    /\ call.arg[1].scope = Some(<<"U", "I">>)
    /\ call.before = seen
    /\ seen = {<<"f", "i", "x", ":", "u", "i", ":", "a">>}

\* C8: the keys of the set change only by add of a key that is not in it: has
\* leaves them as they are, add of a key that is in the set leaves them as
\* they are, and no operation removes a key.
C8_SeenOnlyGrowsByAdd ==
    [][/\ seen \subseteq seen'
       /\ call'.op = "has" => seen' = seen
       /\ (call'.op = "add" /\ setHas(seen, call'.arg[1])) => seen' = seen
       /\ seen' # seen =>
             /\ call'.op \in {"add", "dedupeCommits"}
             /\ \A key \in seen' \ seen :
                   \E i \in 1..Len(call'.arg) : key = getKey(call'.arg[i])]_vars

\* add of a key that the set holds next to another key
C8_Witness ==
    /\ call.op = "add"
    /\ Cardinality(call.before) = 2
    /\ getKey(call.arg[1]) \in call.before
    /\ seen = call.before

(***************************************************************************)
(* Claims about the walk of a run (Spec)                                   *)
(***************************************************************************)

\* The conventional commits of each log that getCommits can return
ParsedLogs == [log \in LogPool |-> conventionalCommits(log)]

\* The walk has started: tagMap is set and logs holds the logs fetched so far
Walking == pc \in {"walk", "crashed", "done"}

\* A version with a "-" part, read off its text
HasPreReleasePart(version) == \E i \in 1..Len(version) : version[i] = "-"

\* The versions walked so far, as places in tagMap.versions
Walked == 1..Len(logs)

\* The places walked so far that hold a stable version
StableWalked == {i \in Walked : ~HasPreReleasePart(tagMap.versions[i])}

\* The place of the k-th stable version walked
NthStable(k) == CHOOSE i \in StableWalked : Cardinality({j \in StableWalked : j <= i}) = k

\* The last stable place before place i, 0 when there is none
PrevStable(i) ==
    IF \E j \in StableWalked : j < i
    THEN CHOOSE j \in StableWalked : j < i /\ \A h \in StableWalked : h < i => h <= j
    ELSE 0

\* The keys of the conventional commits of the logs at the places I
KeysAt(I) ==
    UNION {{KeyParts(ParsedLogs[logs[i]][p]) : p \in 1..Len(ParsedLogs[logs[i]])} : i \in I}

\* The commits of the log at place i that are new: no commit of an earlier
\* log, and none earlier in this log, has their key
NewCommits(i) ==
    LET commits == ParsedLogs[logs[i]]
        earlier == KeysAt(1..(i - 1))
    IN SubsequenceAt(commits,
                     {p \in 1..Len(commits) :
                         /\ KeyParts(commits[p]) \notin earlier
                         /\ \A q \in 1..(p - 1) :
                               KeyParts(commits[q]) # KeyParts(commits[p])})

\* The new commits of the places a..b, in the order of the walk
RECURSIVE NewCommitsOf(_, _)
NewCommitsOf(a, b) == IF a > b THEN <<>> ELSE NewCommitsOf(a, b - 1) \o NewCommits(b)

\* C1: when pre-release versions are followed by a stable version, the walk
\* emits no group for those pre-releases, and the one group of the stable
\* version holds every deduplicated commit of the pre-releases walked since
\* the stable version before it, then the stable version's own.
C1_PreReleaseRollup ==
    Walking =>
        /\ Len(changelogs) >= Cardinality(StableWalked)
        /\ \A k \in 1..Cardinality(StableWalked) :
              /\ changelogs[k].tag = tagMap.versions[NthStable(k)]
              /\ changelogs[k].commits =
                     NewCommitsOf(PrevStable(NthStable(k)) + 1, NthStable(k))
        /\ \A i \in Walked \ StableWalked :
              (\E j \in StableWalked : i < j) =>
                  \A g \in 1..Len(changelogs) :
                      /\ changelogs[g].tag # tagMap.versions[i]
                      /\ changelogs[g].displayTag # tagMap.tags[tagMap.versions[i]].display

\* A stable version after a pre-release, both with commits of their own
C1_Witness ==
    /\ pc = "walk"
    /\ Len(logs) >= 2
    /\ Len(logs) \in StableWalked
    /\ (Len(logs) - 1) \notin StableWalked
    /\ NewCommits(Len(logs) - 1) # <<>>
    /\ NewCommits(Len(logs)) # <<>>
    /\ Len(changelogs[Len(changelogs)].commits) >= 2

\* C2: a group emitted at a stable version carries the label, the display
\* tag, the canonical original tag and the date of that stable version, never
\* the identity taken from a pending pre-release, and once it is emitted the
\* pending commits and the pending identity are empty.
C2_StableGroupOwnIdentity ==
    Walking =>
        /\ \A k \in 1..Cardinality(StableWalked) :
              /\ k <= Len(changelogs)
              /\ changelogs[k].tag = tagMap.versions[NthStable(k)]
              /\ changelogs[k].displayTag = <<"v">> \o tagMap.versions[NthStable(k)]
              /\ changelogs[k].originalTag =
                     tagMap.tags[tagMap.versions[NthStable(k)]].original
              /\ changelogs[k].date = dates[NthStable(k)]
        /\ (Len(logs) \in StableWalked) => pendingCommits = <<>> /\ pendingTagInfo = None

\* A stable version walked right after a pre-release of another date that had
\* commits pending
C2_Witness ==
    /\ pc = "walk"
    /\ Len(logs) >= 2
    /\ Len(logs) \in StableWalked
    /\ (Len(logs) - 1) \notin StableWalked
    /\ NewCommits(Len(logs) - 1) # <<>>
    /\ dates[Len(logs) - 1] # dates[Len(logs)]
    /\ changelogs[Len(changelogs)].date = dates[Len(logs)]
    /\ pendingTagInfo = None

\* The first place of the chain of pre-releases that ends the walk; it is
\* beyond the last place when the walk ends with a stable version
ChainStart == PrevStable(Len(logs) + 1) + 1

\* C3: when the walk ends with a chain of pre-releases that no stable version
\* follows and the chain has at least one deduplicated commit, exactly one
\* last group is emitted: its display tag, original tag and date are those of
\* the first pre-release of the chain, its label is the display tag without
\* the leading "v", and it holds all the commits of the chain.
C3_TrailingChainGroup ==
    (pc = "done" /\ NewCommitsOf(ChainStart, Len(logs)) # <<>>) =>
        /\ Len(changelogs) = Cardinality(StableWalked) + 1
        /\ changelogs[Len(changelogs)] =
               [tag |-> Tail(tagMap.tags[tagMap.versions[ChainStart]].display),
                displayTag |-> tagMap.tags[tagMap.versions[ChainStart]].display,
                originalTag |-> tagMap.tags[tagMap.versions[ChainStart]].original,
                date |-> dates[ChainStart],
                commits |-> NewCommitsOf(ChainStart, Len(logs))]
        /\ Head(changelogs[Len(changelogs)].displayTag) = "v"

\* A run that ends with two pre-releases of different dates after a stable
\* version, the second of them bringing the commits
C3_Witness ==
    /\ pc = "done"
    /\ Len(logs) = 3
    /\ ChainStart = 2
    /\ dates[2] # dates[3]
    /\ NewCommits(2) = <<>>
    /\ NewCommits(3) # <<>>
    /\ Len(changelogs) = 2

\* The places <<g, p>> of the emitted groups where a commit of the key is
PlacesOfKey(key) ==
    {gp \in UNION {{<<g, p>> : p \in 1..Len(changelogs[g].commits)} :
                      g \in 1..Len(changelogs)} :
        KeyParts(changelogs[gp[1]].commits[gp[2]]) = key}

\* C4: after the whole walk, every key (type, scope and subject, letter case
\* put aside) of a conventional commit that getCommits returned for a walked
\* version is in exactly one emitted group, once: none is lost, none is in
\* two groups.
C4_ExactlyOneHome ==
    pc = "done" =>
        /\ \A key \in KeysAt(Walked) : Cardinality(PlacesOfKey(key)) = 1
        /\ \A g \in 1..Len(changelogs) : \A p \in 1..Len(changelogs[g].commits) :
              KeyParts(changelogs[g].commits[p]) \in KeysAt(Walked)

\* A run whose logs repeat a key, within one log and across two, and that ends
\* with a chain of pre-releases after a stable group
C4_Witness ==
    /\ pc = "done"
    /\ Len(changelogs) = 2
    /\ HasPreReleasePart(changelogs[2].tag)
    /\ \E i \in Walked : Len(ParsedLogs[logs[i]]) > Len(NewCommits(i)) /\ NewCommits(i) # <<>>
    /\ \E i, j \in Walked : i < j /\ KeysAt({i}) \cap KeysAt({j}) # {}

\* Every log holds the commits of the log of the version before it
CumulativeLogs ==
    \A i \in 1..(Len(logs) - 1) : Range(logs[i]) \subseteq Range(logs[i + 1])

\* The group that covers place i: the one of the first stable place from i on,
\* or the one after all stable groups
GroupCovering(i) == Cardinality({j \in StableWalked : j < i}) + 1

\* The keys of the commits of group g
KeysOfGroup(g) ==
    {KeyParts(changelogs[g].commits[p]) : p \in 1..Len(changelogs[g].commits)}

\* C5: with cumulative logs, a commit is in the group that covers the lowest
\* version whose log holds its key, and in no group of a later version.
C5_AttributedToLowestVersion ==
    (pc = "done" /\ CumulativeLogs) =>
        \A i \in Walked : \A key \in KeysAt({i}) \ KeysAt(1..(i - 1)) :
            /\ GroupCovering(i) <= Len(changelogs)
            /\ key \in KeysOfGroup(GroupCovering(i))
            /\ \A g \in 1..Len(changelogs) :
                  g # GroupCovering(i) => key \notin KeysOfGroup(g)

\* A run over three versions with growing cumulative logs and a group for each
C5_Witness ==
    /\ pc = "done"
    /\ CumulativeLogs
    /\ Len(logs) = 3
    /\ Len(logs[1]) = 1 /\ Len(logs[2]) = 2 /\ Len(logs[3]) = 4
    /\ Len(changelogs) >= 2
    /\ \A g \in 1..Len(changelogs) : changelogs[g].commits # <<>>

(***************************************************************************)
(* Claims about parseConventionalCommit (SpecParse)                        *)
(***************************************************************************)

\* The place of the first ":" of s, 0 when it has none: where a header of
\* type, scope and "!" ends, since none of these holds a colon
FirstColon(s) ==
    IF \E i \in 1..Len(s) : s[i] = ":"
    THEN CHOOSE i \in 1..Len(s) : s[i] = ":" /\ \A j \in 1..(i - 1) : s[j] # ":"
    ELSE 0

\* header without the "!" at its end
WithoutBang(header) ==
    IF header # <<>> /\ header[Len(header)] = "!"
    THEN SubSeq(header, 1, Len(header) - 1)
    ELSE header

\* The type and the scope that a header (without its "!") reads as
HeaderParts(core) ==
    IF core # <<>> /\ core[Len(core)] = ")" /\ \E i \in 1..Len(core) : core[i] = "("
    THEN LET open == CHOOSE i \in 1..Len(core) :
                         core[i] = "(" /\ \A j \in 1..(i - 1) : core[j] # "("
         IN [type |-> SubSeq(core, 1, open - 1),
             scope |-> Some(SubSeq(core, open + 1, Len(core) - 1))]
    ELSE [type |-> core, scope |-> None]

\* A type of the fixed set in any letter case; a scope, when there is one, is
\* a token: one or more letters, digits, "_" or "-"
IsHeader(parts) ==
    /\ toLowerCase(parts.type) \in ALL_TYPES
    /\ parts.scope # None =>
          /\ parts.scope[1] # <<>>
          /\ \A i \in 1..Len(parts.scope[1]) :
                IsWord(parts.scope[1][i]) \/ parts.scope[1][i] = "-"

\* s without the blanks around it
WithoutBlanks(s) ==
    LET inked == {i \in 1..Len(s) : s[i] # " "}
    IN IF inked = {} THEN <<>>
       ELSE SubSeq(s, CHOOSE i \in inked : \A j \in inked : i <= j,
                      CHOOSE i \in inked : \A j \in inked : j <= i)

\* The description of a subject: what follows its first colon, blanks around
\* it removed
DescriptionOf(subject) ==
    WithoutBlanks(SubSeq(subject, FirstColon(subject) + 1, Len(subject)))

\* The header of a subject: what stands before its first colon
HeaderOf(subject) == SubSeq(subject, 1, FirstColon(subject) - 1)

\* The subject has the form type, optional scope, optional "!", colon and a
\* description that is not empty
HasConventionalForm(subject) ==
    /\ FirstColon(subject) > 0
    /\ IsHeader(HeaderParts(WithoutBang(HeaderOf(subject))))
    /\ DescriptionOf(subject) # <<>>

\* C12: parseConventionalCommit yields a record exactly when the subject has
\* the form type, optional parenthesized scope, optional "!", colon, non-empty
\* description, the type one of the fixed set in any letter case; the record
\* has the type in lower case, the scope inside the parentheses or none, and
\* as subject the non-empty description without the whitespace around it.
C12_RecordIffConventionalForm ==
    call.op = "parseConventionalCommit" =>
        /\ call.result # None <=> HasConventionalForm(call.arg[1].subject)
        /\ call.result # None =>
              /\ call.result[1].type \in ALL_TYPES
              /\ call.result[1].type =
                     toLowerCase(HeaderParts(WithoutBang(HeaderOf(call.arg[1].subject))).type)
              /\ call.result[1].scope =
                     HeaderParts(WithoutBang(HeaderOf(call.arg[1].subject))).scope
              /\ call.result[1].subject = DescriptionOf(call.arg[1].subject)
              /\ call.result[1].subject # <<>>

\* Some line of the body begins with the footer token, in any letter case
HasFooterLine(body) ==
    \E line \in Range(Split(body, "\n")) :
        /\ Len(line) >= 16
        /\ toLowerCase(SubSeq(line, 1, 16)) \in
                {<<"b", "r", "e", "a", "k", "i", "n", "g", " ", "c", "h", "a", "n", "g", "e", ":">>,
                 <<"b", "r", "e", "a", "k", "i", "n", "g", "-", "c", "h", "a", "n", "g", "e", ":">>}

\* C13: for every accepted commit, breaking is true exactly when a "!" stands
\* directly before the colon that ends the header of the subject, or a line of
\* the body begins with "BREAKING CHANGE:" or "BREAKING-CHANGE:" in any letter
\* case; text elsewhere in the description never sets the flag.
C13_BreakingIffBangOrFooter ==
    (call.op = "parseConventionalCommit" /\ call.result # None) =>
        (call.result[1].breaking <=>
            \/ HeaderOf(call.arg[1].subject) # WithoutBang(HeaderOf(call.arg[1].subject))
            \/ HasFooterLine(call.arg[1].body))

(***************************************************************************)
(* Claims on the version bump (SpecBump)                                   *)
(***************************************************************************)

\* The commit conforms to the convention and is breaking: a "!" ends its
\* header, or a line of its body begins with the footer token
IsBreakingCommit(commit) ==
    /\ HasConventionalForm(commit.subject)
    /\ \/ HeaderOf(commit.subject) # WithoutBang(HeaderOf(commit.subject))
       \/ HasFooterLine(commit.body)

\* The commit conforms to the convention and its type is one of types
HasTypeOf(commit, types) ==
    /\ HasConventionalForm(commit.subject)
    /\ toLowerCase(HeaderParts(WithoutBang(HeaderOf(commit.subject))).type) \in types

\* The first number of a version MAJOR.MINOR.PATCH
MajorOf(version) == NumVal(Split(version, ".")[1])

\* The category by precedence breaking > feat > fix/perf > none
CategoryByPrecedence(commits, major) ==
    IF \E i \in 1..Len(commits) : IsBreakingCommit(commits[i])
    THEN IF major = 0 THEN "minor" ELSE "major"
    ELSE IF \E i \in 1..Len(commits) : HasTypeOf(commits[i], {<<"f", "e", "a", "t">>})
    THEN "minor"
    ELSE IF \E i \in 1..Len(commits) :
                HasTypeOf(commits[i], {<<"f", "i", "x">>, <<"p", "e", "r", "f">>})
    THEN "patch"
    ELSE "none"

\* C14: suggestNextVersion chooses the category by precedence over the
\* conventional commits of its input: any breaking commit gives major, or
\* minor when the current major version is 0; otherwise any feat gives minor;
\* otherwise any fix or perf gives patch; otherwise none.
C14_CategoryByPrecedence ==
    call.op = "suggestNextVersion" =>
        call.result.bumpType =
            CategoryByPrecedence(call.arg[1], MajorOf(call.result.currentVersion))

\* The version embedded in a tag, None when the tag holds no valid version
EmbeddedVersion(tag) == IF isValidVersion(tag) THEN extractVersion(tag) ELSE None

\* MAJOR.MINOR.PATCH of a version: what stands before its pre-release part
BaseOf(version) ==
    IF HasDash(version)
    THEN SubSeq(version, 1,
                (CHOOSE i \in 1..Len(version) :
                     version[i] = "-" /\ \A j \in 1..(i - 1) : version[j] # "-") - 1)
    ELSE version

\* The standard increment of MAJOR.MINOR.PATCH for a category
Increment(base, category) ==
    LET n == [i \in 1..3 |-> NumVal(Split(base, ".")[i])]
        Format(major, minor, patch) ==
            NumStr(major) \o <<".">> \o NumStr(minor) \o <<".">> \o NumStr(patch)
    IN IF category = "major" THEN Format(n[1] + 1, 0, 0)
       ELSE IF category = "minor" THEN Format(n[1], n[2] + 1, 0)
       ELSE IF category = "patch" THEN Format(n[1], n[2], n[3] + 1)
       ELSE base

\* C15: for every last tag whose embedded version has no pre-release
\* component, plain or decorated, suggestNextVersion returns the standard
\* increment of the baseline for the chosen category: (M+1).0.0 for major,
\* M.(m+1).0 for minor, M.m.(p+1) for patch, the baseline itself for none.
C15_StandardIncrement ==
    (/\ call.op = "suggestNextVersion"
     /\ call.arg[2] # None
     /\ EmbeddedVersion(call.arg[2][1]) # None
     /\ ~HasDash(EmbeddedVersion(call.arg[2][1])))
    => call.result.nextVersion =
           Increment(EmbeddedVersion(call.arg[2][1]), call.result.bumpType)

\* The last tag of the call is a pre-release tag
LastTagIsPreRelease ==
    /\ call.op = "suggestNextVersion"
    /\ call.arg[2] # None
    /\ EmbeddedVersion(call.arg[2][1]) # None
    /\ isPreRelease(EmbeddedVersion(call.arg[2][1]))

\* C16: when the last tag is a pre-release tag and the category is patch, the
\* next version is the base MAJOR.MINOR.PATCH of that tag, without the
\* pre-release part and without an increment; for the categories minor and
\* major the increment is applied to that base.
C16_PreReleaseCollapse ==
    LastTagIsPreRelease =>
        /\ call.result.bumpType = "patch" =>
              call.result.nextVersion = BaseOf(EmbeddedVersion(call.arg[2][1]))
        /\ call.result.bumpType \in {"minor", "major"} =>
              call.result.nextVersion =
                  Increment(BaseOf(EmbeddedVersion(call.arg[2][1])), call.result.bumpType)

\* C16 witness: a fix after a pre-release tag gave the base of the tag
C16_Witness ==
    /\ LastTagIsPreRelease
    /\ call.result.bumpType = "patch"
    /\ call.result.hasFixes
    /\ call.result.nextVersion = BaseOf(EmbeddedVersion(call.arg[2][1]))
    /\ call.result.nextVersion # EmbeddedVersion(call.arg[2][1])

\* The names that a suffix can stand for: the suffix without its leading
\* hyphen and without a counter of a dot and digits at its end
NameOfSuffix(suffix) ==
    LET from == IF suffix # <<>> /\ suffix[1] = "-" THEN 2 ELSE 1
        counters == {k \in from..(Len(suffix) - 1) :
                        /\ suffix[k] = "."
                        /\ \A q \in (k + 1)..Len(suffix) : suffix[q] \in DigitSet}
    IN IF counters = {} THEN SubSeq(suffix, from, Len(suffix))
       ELSE SubSeq(suffix, from, (CHOOSE k \in counters : TRUE) - 1)

\* The largest number of a set of numbers, 0 for the empty set
Largest(numbers) ==
    IF numbers = {} THEN 0 ELSE CHOOSE n \in numbers : \A m \in numbers : m <= n

\* The counters of the tags that are exactly an optional "v", then head, then
\* digits
CountersOf(tags, head) ==
    {NumVal(SubSeq(tags[i], k + 1, Len(tags[i]))) :
        <<i, k>> \in {p \in (1..Len(tags)) \X (1..Largest({Len(tags[j]) : j \in 1..Len(tags)})) :
                         /\ p[2] < Len(tags[p[1]])
                         /\ SubSeq(tags[p[1]], 1, p[2]) \in {head, <<"v">> \o head}
                         /\ \A q \in (p[2] + 1)..Len(tags[p[1]]) :
                               tags[p[1]][q] \in DigitSet}}

\* C17: getNextPrereleaseVersion(base, suffix, tags) is base-NAME.(N+1), NAME
\* the suffix without its leading hyphen and its trailing counter, N the
\* largest counter among the tags that are exactly an optional "v", base, "-",
\* NAME, ".", digits, 0 when there is none; other tags change nothing.
C17_NextPrereleaseCounter ==
    call.op = "getNextPrereleaseVersion" =>
        call.result =
            call.arg[1] \o <<"-">> \o NameOfSuffix(call.arg[2]) \o <<".">>
                \o NumStr(Largest(CountersOf(call.arg[3],
                       call.arg[1] \o <<"-">> \o NameOfSuffix(call.arg[2]) \o <<".">>)) + 1)

\* C17 witness: the suffix came with a hyphen or a counter, a tag of the line
\* was counted and a tag of another line was passed over
C17_Witness ==
    /\ call.op = "getNextPrereleaseVersion"
    /\ NameOfSuffix(call.arg[2]) # call.arg[2]
    /\ Largest(CountersOf(call.arg[3],
           call.arg[1] \o <<"-">> \o NameOfSuffix(call.arg[2]) \o <<".">>)) > 1
    /\ \E i \in 1..Len(call.arg[3]) :
           /\ HasDash(call.arg[3][i])
           /\ CountersOf(<<call.arg[3][i]>>,
                  call.arg[1] \o <<"-">> \o NameOfSuffix(call.arg[2]) \o <<".">>) = {}
    /\ call.result =
           call.arg[1] \o <<"-">> \o NameOfSuffix(call.arg[2]) \o <<".">>
               \o NumStr(Largest(CountersOf(call.arg[3],
                      call.arg[1] \o <<"-">> \o NameOfSuffix(call.arg[2]) \o <<".">>)) + 1)

(***************************************************************************)
(* Claims on the failures of a run (Spec)                                  *)
(***************************************************************************)

\* The working directory turned out not to be a Git repository
NotARepository == call.op = "isGitRepository" /\ ~call.result

\* The run was in a repository in which no tag holds a valid version
NoValidTag ==
    /\ call.op = "isGitRepository"
    /\ call.result
    /\ \A i \in 1..Len(allTags) : ~isValidVersion(allTags[i])

\* C18: when the working directory is not a Git repository, or no tag holds a
\* valid semantic version, the run ends with an error and a non-zero status:
\* it never reaches the walk over the versions or the output, no commit log
\* has been fetched and no changelog has been built or written.
C18_ErrorExitBeforeAnyLog ==
    (NotARepository \/ NoValidTag) =>
        /\ pc \in {"exit1", "crashed"}
        /\ logs = <<>>
        /\ changelogs = <<>>

\* C18 witness: a repository whose only tags hold no version ended the run
\* with exit status 1
C18_Witness ==
    /\ pc = "exit1"
    /\ NoValidTag
    /\ allTags # <<>>
    /\ logs = <<>>
    /\ changelogs = <<>>

\* C19: no accessor (getTags, getCommits, getCommitsSince, getTagDate,
\* getLastTag, getRemoteUrl) lets the failure of its command reach its caller
\* as an exception: a run never ends by an exception thrown from an accessor.
C19_AccessorsNeverThrow == pc # "crashed"

(***************************************************************************)
(* Claims on the state of the walk (Spec)                                  *)
(***************************************************************************)

\* One step of the run keeps the pair of accumulators together: an identity
\* that stays is the same identity, and either of the two is cleared only in
\* a step that clears both and emits a group
PairStep ==
    /\ (pendingTagInfo # None /\ pendingTagInfo' # None) => pendingTagInfo' = pendingTagInfo
    /\ (pendingTagInfo # None /\ pendingTagInfo' = None) =>
          /\ pendingCommits' = <<>>
          /\ Len(changelogs') = Len(changelogs) + 1
    /\ (pendingCommits # <<>> /\ pendingCommits' = <<>>) =>
          /\ pendingTagInfo' = None
          /\ Len(changelogs') = Len(changelogs) + 1

\* C21: at every step of the walk, when no pending identity is held the
\* pending commits are empty; the two are cleared only together, when a stable
\* version is emitted; and a pending identity, once captured, is not replaced
\* by a later pre-release of the same chain.
C21_AccumulatorPair ==
    /\ [](pendingTagInfo = None => pendingCommits = <<>>)
    /\ [][PairStep]_vars

\* C21 witness: two pre-releases of one chain have been walked, commits are
\* pending and the identity held is that of the first
C21_Witness ==
    /\ pc = "walk"
    /\ idx = 3
    /\ isPreRelease(tagMap.versions[1])
    /\ isPreRelease(tagMap.versions[2])
    /\ pendingCommits # <<>>
    /\ pendingTagInfo # None
    /\ pendingTagInfo[1].original = tagMap.tags[tagMap.versions[1]].original
    /\ pendingTagInfo[1].display # tagMap.tags[tagMap.versions[2]].display

\* C22: the release groups produced by the walk are strictly ascending in
\* semantic-versioning precedence of their labels, oldest first; at most one
\* group has a pre-release label, and it is the last group.
C22_GroupsAscending ==
    /\ \A i \in 1..Len(changelogs) : \A j \in (i + 1)..Len(changelogs) :
           semverCompare(changelogs[i].tag, changelogs[j].tag) = -1
    /\ \A i \in 1..Len(changelogs) :
           isPreRelease(changelogs[i].tag) => i = Len(changelogs)

\* C22 witness: the run ended with a stable group followed by the group of
\* the trailing pre-release chain
C22_Witness ==
    /\ pc = "done"
    /\ Len(changelogs) >= 2
    /\ isPreRelease(changelogs[Len(changelogs)].tag)
    /\ ~isPreRelease(changelogs[1].tag)
    /\ semverCompare(changelogs[1].tag, changelogs[Len(changelogs)].tag) = -1

(***************************************************************************)
(* Claims on the groups and the text of a run (Spec)                       *)
(***************************************************************************)

\* The places walked after the last stable version: the trailing chain
TrailingPlaces == {i \in Walked : \A j \in StableWalked : j < i}

\* The lines of the text that the run wrote
WrittenLines == Split(call.result, "\n")

\* The header lines that a group can have, with and without a date
HeadersOf(entry) ==
    {<<"#", "#", " ">> \o entry.displayTag} \cup
    {<<"#", "#", " ">> \o entry.displayTag \o <<" ", "(">> \o DateText(d) \o <<")">> :
        d \in Dates \ {""}}

\* C23: the number of release groups equals the number of stable versions,
\* plus one when the trailing pre-release chain left at least one pending
\* commit; a stable version whose accumulated commit list is empty still has
\* its group, with an empty commit list, and formatChangelog prints no header
\* for such a group.
C23_GroupPerStableVersion ==
    /\ pc = "walk" => Len(changelogs) = Cardinality(StableWalked)
    /\ pc = "done" =>
          /\ Len(changelogs) =
                 Cardinality(StableWalked)
                     + (IF \E i \in TrailingPlaces : NewCommits(i) # <<>> THEN 1 ELSE 0)
          /\ \A k \in 1..Cardinality(StableWalked) :
                 /\ changelogs[k].tag = tagMap.versions[NthStable(k)]
                 /\ NewCommitsOf(PrevStable(NthStable(k)) + 1, NthStable(k)) = <<>>
                        => changelogs[k].commits = <<>>
          /\ \A g \in 1..Len(changelogs) :
                 changelogs[g].commits = <<>> =>
                     HeadersOf(changelogs[g]) \cap Range(WrittenLines) = {}

\* C23 witness: the run ended with two groups, the first with commits and its
\* header in the text, the second a stable version without commits and
\* without a header
C23_Witness ==
    /\ pc = "done"
    /\ Len(changelogs) = 2
    /\ Cardinality(StableWalked) = 2
    /\ changelogs[1].commits # <<>>
    /\ HeadersOf(changelogs[1]) \cap Range(WrittenLines) # {}
    /\ changelogs[2].commits = <<>>
    /\ HeadersOf(changelogs[2]) \cap Range(WrittenLines) = {}

(***************************************************************************)
(* Claims on repeated runs (SpecRerun)                                     *)
(***************************************************************************)

\* The walk of a further run is over, and it has fetched the logs and the
\* dates that the run before fetched
SameRunAgain ==
    /\ pc = "walk"
    /\ call.op = "run"
    /\ idx > Len(tagMap.versions)
    /\ logs = call.arg[1]
    /\ dates = call.arg[2]

\* C24: no state survives a run: a run over the same tags, commit logs and
\* dates as the run before produces the same release groups with the same
\* commits; the keys that the run before recorded filter none of its commits.
C24_NoStateSurvivesARun ==
    SameRunAgain =>
        finalChangelogs(changelogs, pendingCommits, pendingTagInfo) = call.result

\* C24 witness: the run before recorded keys and wrote a group with commits,
\* and the same run again has the same group
C24_Witness ==
    /\ SameRunAgain
    /\ call.before # {}
    /\ seen = call.before
    /\ Len(call.result) >= 1
    /\ call.result[1].commits # <<>>
    /\ finalChangelogs(changelogs, pendingCommits, pendingTagInfo) = call.result

(***************************************************************************)
(* Claims on the two entry points (SpecAction)                             *)
(***************************************************************************)

\* The loop of runAction is over, and it has fetched the logs and the dates
\* that run fetched
SameInAction ==
    /\ pc = "actionWalk"
    /\ call.op = "run"
    /\ idx > Len(tagMap.versions)
    /\ logs = call.arg[1]
    /\ dates = call.arg[2]

\* C25: for the same tags, commit logs and dates, runAction assembles the
\* sequence of release groups that run assembles: same labels, tags, dates
\* and commit lists.
C25_EntryPointsAssembleTheSame ==
    SameInAction =>
        runActionChangelogs(changelogs, pendingCommits, pendingTagInfo) = call.result

\* C25 witness: run ended with the group of a trailing pre-release chain, with
\* commits, and runAction has walked the same logs and dates
C25_Witness ==
    /\ SameInAction
    /\ pendingCommits # <<>>
    /\ pendingTagInfo # None
    /\ Len(call.result) >= 1
    /\ call.result[Len(call.result)].commits = pendingCommits
    /\ call.result[Len(call.result)].displayTag = pendingTagInfo[1].display

(***************************************************************************)
(* Claims about parseCommitOutput (SpecLog)                                *)
(***************************************************************************)

\* The commits as they are expected back: the body trimmed
Logged(commits) ==
    [i \in 1..Len(commits) |->
        [hash |-> commits[i].hash, subject |-> commits[i].subject,
         body |-> trim(commits[i].body)]]

\* C26: parsing is the inverse of the format of the log: for every list of
\* commits written as one hash|subject|body record each, parseCommitOutput
\* returns as many commits in the same order, each with its hash, its subject
\* and its body trimmed; a body line starts no commit and changes no subject.
C26_ParseInvertsFormat ==
    pc = "parsed" => call.result = Logged(call.arg)

(***************************************************************************)
(* Claims about formatChangelog (SpecFormat)                               *)
(***************************************************************************)

\* A line is the header of a release
IsReleaseHeader(line) == Len(line) >= 3 /\ SubSeq(line, 1, 3) = <<"#", "#", " ">>

\* The lines of the written text that belong to the release of entry: from its
\* header to the line before the next release header
ReleaseLines(lines, entry) ==
    IF \E h \in 1..Len(lines) : lines[h] = formatHeader(entry.displayTag, entry.date)
    THEN LET h == CHOOSE k \in 1..Len(lines) : lines[k] = formatHeader(entry.displayTag, entry.date)
             e == IF \E k \in (h + 1)..Len(lines) : IsReleaseHeader(lines[k])
                  THEN (CHOOSE k \in (h + 1)..Len(lines) :
                            /\ IsReleaseHeader(lines[k])
                            /\ \A j \in (h + 1)..(k - 1) : ~IsReleaseHeader(lines[j])) - 1
                  ELSE Len(lines)
         IN SubSeq(lines, h, e)
    ELSE <<>>

\* The commit is listed in the BREAKING CHANGES section among the lines: its
\* line comes after the heading, with no other heading between the two
ListedAsBreaking(lines, commit) ==
    \E b \in 1..Len(lines) :
        /\ lines[b] = BreakingHeading
        /\ \E l \in (b + 1)..Len(lines) :
               /\ lines[l] = formatCommitLine(commit)
               /\ \A j \in (b + 1)..(l - 1) : lines[j] = <<>> \/ lines[j][1] # "#"

\* C27: for every release group given to formatChangelog, each commit with
\* breaking = true is listed in the BREAKING CHANGES section of that release
\* in the output, whatever its type and whatever the verbose flag.
C27_BreakingAlwaysListed ==
    pc = "formatted" =>
        \A g \in 1..Len(call.arg[1]) :
            \A i \in 1..Len(call.arg[1][g].commits) :
                call.arg[1][g].commits[i].breaking =>
                    ListedAsBreaking(ReleaseLines(Split(call.result, "\n"), call.arg[1][g]),
                                     call.arg[1][g].commits[i])

(***************************************************************************)
(* Claims on the order of the tags (SpecTags)                              *)
(***************************************************************************)

\* The tag lists that hold the tags of tags in another order
PermutationsOf(tags) ==
    {[i \in 1..Len(tags) |-> tags[p[i]]] :
        p \in {q \in [1..Len(tags) -> 1..Len(tags)] :
                  \A i, j \in 1..Len(tags) : q[i] = q[j] => i = j}}

\* C28: the result of normalizeTags does not depend on the order of the input
\* tags: for any two permutations of the same tag list, the canonical original
\* tag kept for each version is the same.
C28_OrderIndependent ==
    (pc = "normalized" /\ call.op = "normalizeTags") =>
        \A other \in PermutationsOf(call.arg) :
            \A v \in Range(tagMap.versions) :
                normalizeTags(other).tags[v].original = tagMap.tags[v].original

(***************************************************************************)
(* Claims on successive pre-releases (SpecRelease)                         *)
(***************************************************************************)

\* The counter of a returned version: the digits after its last dot
CounterOfVersion(version) ==
    NumVal(SubSeq(version,
                  (CHOOSE p \in 1..Len(version) :
                       /\ version[p] = "."
                       /\ \A q \in (p + 1)..Len(version) : version[q] # ".") + 1,
                  Len(version)))

\* A version has been returned and tagged, and the next call is made with the
\* same base version and suffix
NextOfSameLine ==
    /\ pc = "tagged"
    /\ pc' = "counted"
    /\ call'.arg[1] = call.arg[1]
    /\ call'.arg[2] = call.arg[2]

\* C29: the version returned by getNextPrereleaseVersion is never one of the
\* given tags, with or without a leading "v"; so when each returned version
\* is tagged as "v" + version before the next call with the same base version
\* and suffix, the counter of each call is the counter of the call before
\* plus one: no repetition and no gap.
C29_CountersInSequence ==
    /\ [](call.op = "getNextPrereleaseVersion" =>
              /\ call.result \notin Range(call.arg[3])
              /\ <<"v">> \o call.result \notin Range(call.arg[3]))
    /\ [][NextOfSameLine =>
              CounterOfVersion(call'.result) = CounterOfVersion(call.result) + 1]_vars

\* C29 witness: the repository had a tag of the line with a counter above 1,
\* two returned versions were tagged, and the third call returns the counter
\* after theirs
C29_Witness ==
    /\ pc = "counted"
    /\ Len(allTags) = 3
    /\ CountersOf(<<allTags[1]>>,
           call.arg[1] \o <<"-">> \o NameOfSuffix(call.arg[2]) \o <<".">>) # {}
    /\ CounterOfVersion(allTags[1]) > 1
    /\ CounterOfVersion(allTags[2]) = CounterOfVersion(allTags[1]) + 1
    /\ CounterOfVersion(allTags[3]) = CounterOfVersion(allTags[2]) + 1
    /\ CounterOfVersion(call.result) = CounterOfVersion(allTags[3]) + 1
    /\ allTags[3] = <<"v">> \o call.arg[1] \o <<"-">> \o NameOfSuffix(call.arg[2])
                        \o <<".">> \o NumStr(CounterOfVersion(allTags[3]))

(***************************************************************************)
(* Claims on the printed version (SpecBumpRun)                             *)
(***************************************************************************)

\* C30: in bump mode the printed version, with or without a --suffix, is
\* never lower in semantic-versioning precedence than the version of the last
\* tag, for every last tag and every set of commits since it.
C30_NeverBelowLastTag ==
    (pc = "printed" /\ call.arg[1] # None /\ EmbeddedVersion(call.arg[1][1]) # None) =>
        /\ semverParse(call.result) # None
        /\ semverCompare(call.result, EmbeddedVersion(call.arg[1][1])) >= 0

====
